---- MODULE Spec2Model ----
(***************************************************************************)
(* The Window operator of velox/exec/Window.cpp as a state machine, with   *)
(* PlanBuilder::window of velox/exec/tests/utils/PlanBuilder.cpp and the   *)
(* TableWriter operator of velox/exec/TableWriter.cpp.                     *)
(*                                                                         *)
(* Row indices, slice positions and buffer indices are 0-based as in the   *)
(* source; a TLA+ sequence holds index r at position r + 1.                *)
(*                                                                         *)
(* A 64-bit offset is the pair [hi, lo] standing for hi * 2^32 + lo, with  *)
(* lo inside the signed 32-bit range: narrowing it to vector_size_t        *)
(* (int32_t) keeps lo and drops hi.                                        *)
(***************************************************************************)
EXTENDS Integers, Sequences, FiniteSets, TLC

\* Bounds of the model.
MaxRows == 4
MaxBudget == 3
MaxK == 3
MaxKeys == 2
MaxWrittenRows == 2
MaxFragments == 2
MaxWriterCalls == 4
MaxPathLen == 3
kMaxCacheSize == 2
MaxSources == 2
MaxPromises == 2
MaxPages == 1

VARIABLES
    partitions,         \* the sorted partitions the WindowBuild will hand out
    windowFrames_,      \* Window::windowFrames_, one WindowFrame per function
    numRowsPerOutput_,  \* Window::numRowsPerOutput_
    op,                 \* the remaining fields of Window and of its WindowBuild
    log,                \* history of the calls made on partitions and functions
    planBuilder,        \* the strings PlanBuilder::window is given, and its outcome
    tableWriter,        \* the fields of a TableWriter, and what getOutput returned
    extractorCache,     \* a thread's extractorCache of SIMDJsonExtractor::getInstance, and its last call
    exchangeQueue       \* the fields of an ExchangeQueue, and its last call

vars == <<partitions, windowFrames_, numRowsPerOutput_, op, log, planBuilder, tableWriter, extractorCache, exchangeQueue>>

----------------------------------------------------------------------------
\* Small helpers.

Max(a, b) == IF a >= b THEN a ELSE b
Min(a, b) == IF a <= b THEN a ELSE b

RECURSIVE SumSeq(_)
SumSeq(s) == IF s = <<>> THEN 0 ELSE Head(s) + SumSeq(Tail(s))

\* std::iota(first, first + n, value)
Iota(n, value) == [j \in 1..n |-> value + (j - 1)]

\* std::fill_n(first, n, value)
FillN(n, value) == [j \in 1..n |-> value]

\* Writing vals at the front of a buffer leaves the entries behind them alone.
WritePrefix(buf, vals) ==
    [j \in 1..Max(Len(buf), Len(vals)) |->
        IF j <= Len(vals) THEN vals[j] ELSE buf[j]]

----------------------------------------------------------------------------
\* core::WindowNode::WindowType and core::WindowNode::BoundType.

kRows == "kRows"
kRange == "kRange"
kUnboundedPreceding == "kUnboundedPreceding"
kPreceding == "kPreceding"
kCurrentRow == "kCurrentRow"
kFollowing == "kFollowing"
kUnboundedFollowing == "kUnboundedFollowing"

WindowTypes == {kRows, kRange}
BoundTypes ==
    {kUnboundedPreceding, kPreceding, kCurrentRow, kFollowing,
     kUnboundedFollowing}

IsKBound(boundType) == boundType \in {kPreceding, kFollowing}

\* Column index standing for "the argument is a constant".
kConstantChannel == -1

\* The only column of the input that holds frame offsets.
OffsetChannel == 0

\* std::nullopt
NullOpt == [present |-> FALSE]

\* An offset value: a null, or the 64-bit integer hi * 2^32 + lo.
NullOffset == [isNull |-> TRUE, hi |-> 0, lo |-> 0]
Offset(hi, lo) == [isNull |-> FALSE, hi |-> hi, lo |-> lo]

\* offsets[i] < 0
IsNegative(v) == v.hi < 0 \/ (v.hi = 0 /\ v.lo < 0)

\* vector_size_t(factor * v) for factor in {-1, 1}: the low 32 bits.
NarrowScaled(factor, v) == factor * v.lo

\* FrameChannelArg{kConstantChannel, nullptr, value}
ConstantArg(value) ==
    [present |-> TRUE, index |-> kConstantChannel, constant |-> value]

\* FrameChannelArg{frameChannel, BaseVector::create(...), std::nullopt}
ColumnArg(channel) ==
    [present |-> TRUE, index |-> channel, constant |-> NullOffset]

----------------------------------------------------------------------------
\* WindowPartition: rows sorted on the ORDER BY key; key is the dense rank
\* of the row's ORDER BY value, off its value in the offset column.

\* WindowPartition::numRows
PartNumRows(part) == Len(part)

\* WindowPartition::extractColumn(OffsetChannel, startOffset, numRows, ...)
ExtractOffsets(part, startOffset, numRows) ==
    [j \in 1..numRows |-> part[startOffset + j].off]

\* One past the last row that has the ORDER BY key of row peerStart.
RECURSIVE PeerGroupEnd(_, _, _)
PeerGroupEnd(part, peerStart, peerEnd) ==
    IF peerEnd <= Len(part) - 1
       /\ part[peerEnd + 1].key = part[peerStart + 1].key
    THEN PeerGroupEnd(part, peerStart, peerEnd + 1)
    ELSE peerEnd

\* WindowPartition::computePeerBuffers: the peer group of every row of
\* [start, end), resuming from the group [prevPeerStart, prevPeerEnd) the
\* previous call stopped in.  rawPeerEnds is inclusive, the returned pair
\* is half open.
RECURSIVE computePeerBuffers(_, _, _, _, _)

\* Row `start` is in the group [peerStart, peerEnd); rest is the result for
\* the rows after it.
PeerBuffersWith(peerStart, peerEnd, rest) ==
    [peerStart |-> rest.peerStart, peerEnd |-> rest.peerEnd,
     rawPeerStarts |-> <<peerStart>> \o rest.rawPeerStarts,
     rawPeerEnds |-> <<peerEnd - 1>> \o rest.rawPeerEnds]

PeerBuffersFrom(part, start, end, peerStart, peerEnd) ==
    PeerBuffersWith(
        peerStart, peerEnd,
        computePeerBuffers(part, start + 1, end, peerStart, peerEnd))

computePeerBuffers(part, start, end, prevPeerStart, prevPeerEnd) ==
    IF start >= end
    THEN [peerStart |-> prevPeerStart, peerEnd |-> prevPeerEnd,
          rawPeerStarts |-> <<>>, rawPeerEnds |-> <<>>]
    ELSE IF start = 0 \/ start >= prevPeerEnd
    THEN PeerBuffersFrom(
             part, start, end, start, PeerGroupEnd(part, start, start))
    ELSE PeerBuffersFrom(part, start, end, prevPeerStart, prevPeerEnd)

----------------------------------------------------------------------------
\* Frame bound resolution.  Every operator returns [err, bounds, extracts]:
\* err is "none" or the exception thrown, bounds the content of
\* rawFrameBounds afterwards, extracts the extractColumn calls it made on
\* the partition.

NoError == "none"
NullOffsetError == "Window frame offset must not be null"
NegativeOffsetError == "Window frame offset must not be negative"
NYIError == "k frame is only supported in ROWS mode"
InvalidBoundError == "Invalid frame bound type"
BadOptionalAccess == "bad optional access"

\* A faulty variant of FirstBadOffset: only nulls are looked for.
FirstBadOffsetNullsOnly(value, numRows) ==
    LET bad == {j \in 1..numRows : value[j].isNull}
    IN  IF bad = {} THEN 0 ELSE CHOOSE j \in bad : \A k \in bad : j <= k

\* The first row of the extracted vector that fails a check, or 0.
FirstBadOffset(value, numRows) ==
    LET bad == {j \in 1..numRows : value[j].isNull \/ IsNegative(value[j])}
    IN  IF bad = {} THEN 0 ELSE CHOOSE j \in bad : \A k \in bad : j <= k

\* A faulty variant of updateKRowsOffsetsColumn: the rows are counted from the
\* start of the slice instead of from startRow.
updateKRowsOffsetsColumnFromZero(isKPreceding, value, startRow, numRows, rawFrameBounds) ==
    LET bad == FirstBadOffset(value, numRows)
        precedingFactor == IF isKPreceding THEN -1 ELSE 1
    IN  IF bad # 0
        THEN [err |-> IF value[bad].isNull THEN NullOffsetError
                      ELSE NegativeOffsetError,
              bad |-> value[bad],
              bounds |-> rawFrameBounds]
        ELSE [err |-> NoError,
              bad |-> NullOffset,
              bounds |-> WritePrefix(rawFrameBounds,
                  [j \in 1..numRows |->
                      (j - 1) + NarrowScaled(precedingFactor, value[j])])]

\* updateKRowsOffsetsColumn<T>
updateKRowsOffsetsColumn(isKPreceding, value, startRow, numRows, rawFrameBounds) ==
    LET bad == FirstBadOffset(value, numRows)
        precedingFactor == IF isKPreceding THEN -1 ELSE 1
    IN  IF bad # 0
        THEN [err |-> IF value[bad].isNull THEN NullOffsetError
                      ELSE NegativeOffsetError,
              bad |-> value[bad],
              bounds |-> rawFrameBounds]
        ELSE [err |-> NoError,
              bad |-> NullOffset,
              bounds |-> WritePrefix(rawFrameBounds,
                  [j \in 1..numRows |->
                      (startRow + (j - 1))
                          + NarrowScaled(precedingFactor, value[j])])]

\* currentPartition_->extractColumn(frameArg.index, partitionOffset_,
\* numRows, 0, frameArg.value) went before the result r.
WithExtract(r, channel, startOffset, numRows) ==
    [err |-> r.err, bad |-> r.bad, bounds |-> r.bounds,
     extracts |-> <<[channel |-> channel, startOffset |-> startOffset,
                     numRows |-> numRows]>>]

\* A faulty variant of updateKRowsFrameBounds: a constant offset is added on
\* k preceding bounds too.
updateKRowsFrameBoundsAlwaysAdds(isKPreceding, frameArg, part, partitionOffset, startRow, numRows, rawFrameBounds) ==
    IF frameArg.index = kConstantChannel
    THEN LET startValue == startRow + NarrowScaled(1, frameArg.constant)
         IN  [err |-> NoError,
              bad |-> NullOffset,
              bounds |-> WritePrefix(rawFrameBounds, Iota(numRows, startValue)),
              extracts |-> <<>>]
    ELSE WithExtract(
             updateKRowsOffsetsColumn(
                 isKPreceding, ExtractOffsets(part, partitionOffset, numRows),
                 startRow, numRows, rawFrameBounds),
             frameArg.index, partitionOffset, numRows)

\* A faulty variant of updateKRowsFrameBounds: the offset column is extracted
\* from the first row of the partition on.
updateKRowsFrameBoundsExtractsFromZero(isKPreceding, frameArg, part, partitionOffset, startRow, numRows, rawFrameBounds) ==
    IF frameArg.index = kConstantChannel
    THEN LET startValue ==
                 startRow + NarrowScaled(IF isKPreceding THEN -1 ELSE 1,
                                         frameArg.constant)
         IN  [err |-> NoError,
              bad |-> NullOffset,
              bounds |-> WritePrefix(rawFrameBounds, Iota(numRows, startValue)),
              extracts |-> <<>>]
    ELSE WithExtract(
             updateKRowsOffsetsColumn(
                 isKPreceding, ExtractOffsets(part, 0, numRows),
                 startRow, numRows, rawFrameBounds),
             frameArg.index, 0, numRows)

\* Window::updateKRowsFrameBounds
updateKRowsFrameBounds(isKPreceding, frameArg, part, partitionOffset, startRow, numRows, rawFrameBounds) ==
    IF frameArg.index = kConstantChannel
    THEN LET startValue ==
                 startRow + NarrowScaled(IF isKPreceding THEN -1 ELSE 1,
                                         frameArg.constant)
         IN  [err |-> NoError,
              bad |-> NullOffset,
              bounds |-> WritePrefix(rawFrameBounds, Iota(numRows, startValue)),
              extracts |-> <<>>]
    ELSE WithExtract(
             updateKRowsOffsetsColumn(
                 isKPreceding, ExtractOffsets(part, partitionOffset, numRows),
                 startRow, numRows, rawFrameBounds),
             frameArg.index, partitionOffset, numRows)

\* A faulty variant of CurrentRowBounds: the row indices are counted from the start
\* of the output buffer instead of from startRow.
CurrentRowBoundsFromZero(windowType, isStartBound, startRow, numRows, rawPeerStarts, rawPeerEnds) ==
    IF windowType = kRange
    THEN SubSeq(IF isStartBound THEN rawPeerStarts ELSE rawPeerEnds, 1, numRows)
    ELSE Iota(numRows, 0)

\* A faulty variant of CurrentRowBounds: in RANGE mode both sides take the start
\* of the peer group.
CurrentRowBoundsPeerStarts(windowType, isStartBound, startRow, numRows, rawPeerStarts, rawPeerEnds) ==
    IF windowType = kRange
    THEN SubSeq(rawPeerStarts, 1, numRows)
    ELSE Iota(numRows, startRow)

\* case kCurrentRow of Window::updateFrameBounds
CurrentRowBounds(windowType, isStartBound, startRow, numRows, rawPeerStarts, rawPeerEnds) ==
    IF windowType = kRange
    THEN SubSeq(IF isStartBound THEN rawPeerStarts ELSE rawPeerEnds, 1, numRows)
    ELSE Iota(numRows, startRow)

\* A faulty variant of updateFrameBounds: UNBOUNDED FOLLOWING is the last row
\* of the slice instead of the last row of the partition.
updateFrameBoundsSliceEnd(windowFrame, isStartBound, part, partitionOffset, startRow, numRows, rawPeerStarts, rawPeerEnds, rawFrameBounds) ==
    LET windowType == windowFrame.type
        boundType == IF isStartBound THEN windowFrame.startType
                     ELSE windowFrame.endType
        frameArg == IF isStartBound THEN windowFrame.start ELSE windowFrame.end
        Ok(vals) == [err |-> NoError, bad |-> NullOffset,
                     bounds |-> WritePrefix(rawFrameBounds, vals),
                     extracts |-> <<>>]
        Fail(e) == [err |-> e, bad |-> NullOffset, bounds |-> rawFrameBounds,
                    extracts |-> <<>>]
    IN  CASE boundType = kUnboundedPreceding -> Ok(FillN(numRows, 0))
          [] boundType = kUnboundedFollowing ->
                 Ok(FillN(numRows, startRow + numRows - 1))
          [] boundType = kCurrentRow ->
                 Ok(CurrentRowBounds(windowType, isStartBound, startRow,
                                     numRows, rawPeerStarts, rawPeerEnds))
          [] boundType \in {kPreceding, kFollowing} ->
                 IF windowType = kRows
                 THEN IF frameArg.present
                      THEN updateKRowsFrameBounds(
                               boundType = kPreceding, frameArg, part,
                               partitionOffset, startRow, numRows,
                               rawFrameBounds)
                      ELSE Fail(BadOptionalAccess)
                 ELSE Fail(NYIError)
          [] OTHER -> Fail(InvalidBoundError)

\* Window::updateFrameBounds
updateFrameBounds(windowFrame, isStartBound, part, partitionOffset, startRow, numRows, rawPeerStarts, rawPeerEnds, rawFrameBounds) ==
    LET windowType == windowFrame.type
        boundType == IF isStartBound THEN windowFrame.startType
                     ELSE windowFrame.endType
        frameArg == IF isStartBound THEN windowFrame.start ELSE windowFrame.end
        Ok(vals) == [err |-> NoError, bad |-> NullOffset,
                     bounds |-> WritePrefix(rawFrameBounds, vals),
                     extracts |-> <<>>]
        Fail(e) == [err |-> e, bad |-> NullOffset, bounds |-> rawFrameBounds,
                    extracts |-> <<>>]
    IN  CASE boundType = kUnboundedPreceding -> Ok(FillN(numRows, 0))
          [] boundType = kUnboundedFollowing ->
                 Ok(FillN(numRows, PartNumRows(part) - 1))
          [] boundType = kCurrentRow ->
                 Ok(CurrentRowBounds(windowType, isStartBound, startRow,
                                     numRows, rawPeerStarts, rawPeerEnds))
          [] boundType \in {kPreceding, kFollowing} ->
                 IF windowType = kRows
                 THEN IF frameArg.present
                      THEN updateKRowsFrameBounds(
                               boundType = kPreceding, frameArg, part,
                               partitionOffset, startRow, numRows,
                               rawFrameBounds)
                      ELSE Fail(BadOptionalAccess)
                 ELSE Fail(NYIError)
          [] OTHER -> Fail(InvalidBoundError)

\* Faulty variants of IsValidFrame: one check of the condition is missing.
IsValidFrameNoEndCheck(frameStart, frameEnd, lastRow) ==
    frameStart <= frameEnd /\ frameStart <= lastRow

IsValidFrameNoStartCheck(frameStart, frameEnd, lastRow) ==
    frameStart <= frameEnd /\ frameEnd >= 0

\* The condition of the if statement of computeValidFrames
IsValidFrame(frameStart, frameEnd, lastRow) ==
    frameStart <= frameEnd /\ frameEnd >= 0 /\ frameStart <= lastRow

\* A faulty variant of computeValidFrames: frameEnd is not clamped to lastRow.
computeValidFramesEndUnclamped(lastRow, numRows, rawFrameStarts, rawFrameEnds, validFrames) ==
    LET ok(j) == IsValidFrame(rawFrameStarts[j], rawFrameEnds[j], lastRow)
    IN  [rawFrameStarts |->
             [j \in 1..Len(rawFrameStarts) |->
                 IF j <= numRows /\ ok(j) THEN Max(rawFrameStarts[j], 0)
                 ELSE rawFrameStarts[j]],
         rawFrameEnds |-> rawFrameEnds,
         validFrames |->
             [j \in 1..Len(validFrames) |->
                 IF j <= numRows /\ ~ok(j) THEN FALSE ELSE validFrames[j]]]

\* A faulty variant of computeValidFrames: the bounds are clamped before the check,
\* for every row.
computeValidFramesClampAll(lastRow, numRows, rawFrameStarts, rawFrameEnds, validFrames) ==
    LET ok(j) == IsValidFrame(rawFrameStarts[j], rawFrameEnds[j], lastRow)
    IN  [rawFrameStarts |->
             [j \in 1..Len(rawFrameStarts) |->
                 IF j <= numRows THEN Max(rawFrameStarts[j], 0)
                 ELSE rawFrameStarts[j]],
         rawFrameEnds |->
             [j \in 1..Len(rawFrameEnds) |->
                 IF j <= numRows THEN Min(rawFrameEnds[j], lastRow)
                 ELSE rawFrameEnds[j]],
         validFrames |->
             [j \in 1..Len(validFrames) |->
                 IF j <= numRows /\ ~ok(j) THEN FALSE ELSE validFrames[j]]]

\* computeValidFrames: validFrames comes in with every row valid.

computeValidFrames(lastRow, numRows, rawFrameStarts, rawFrameEnds, validFrames) ==
    LET ok(j) == IsValidFrame(rawFrameStarts[j], rawFrameEnds[j], lastRow)
    IN  [rawFrameStarts |->
             [j \in 1..Len(rawFrameStarts) |->
                 IF j <= numRows /\ ok(j) THEN Max(rawFrameStarts[j], 0)
                 ELSE rawFrameStarts[j]],
         rawFrameEnds |->
             [j \in 1..Len(rawFrameEnds) |->
                 IF j <= numRows /\ ok(j) THEN Min(rawFrameEnds[j], lastRow)
                 ELSE rawFrameEnds[j]],
         validFrames |->
             [j \in 1..Len(validFrames) |->
                 IF j <= numRows /\ ~ok(j) THEN FALSE ELSE validFrames[j]]]

----------------------------------------------------------------------------
\* The operator.  The operators below thread s = [op |-> ..., log |-> ...]
\* through the statements of the method they model; once op.failed holds an
\* exception the remaining statements are skipped.

\* currentPartition_ = nullptr; a held partition is its index in partitions.
NoPartition == 0

\* No PlanBuilder::window call, no TableWriter, no extractor cache and no
\* ExchangeQueue take part in a run of the Window operator.
NotCalled == [result |-> "not called", clause |-> "none", at |-> 0]
NoPlanBuilder == [windowFunctions |-> <<>>, outcome |-> NotCalled]
NoTableWriter == [present |-> FALSE]
NoExtractorCache == [present |-> FALSE]
NoExchangeQueue == [present |-> FALSE]

Failed(s) == s.op.failed # NoError

LogEvent(s, e) == [s EXCEPT !.log.events = Append(@, e)]

CurrentPartition(s) == partitions[s.op.currentPartition_]

\* WindowBuild::hasNextPartition: partitions exist once the build is sorted.
hasNextPartition(s) ==
    s.op.build.sorted /\ s.op.build.currentPartition < Len(partitions)

\* WindowBuild::nextPartition
nextPartition(s) ==
    [s EXCEPT !.op.build.currentPartition = @ + 1,
              !.op.currentPartition_ = s.op.build.currentPartition + 1]

\* A faulty variant of ResetFunctions: only the first function is told.
ResetFunctionsFirstOnly(s) ==
    [s EXCEPT !.log.events = @ \o
        [i \in 1..1 |->
            [ev |-> "resetPartition", w |-> i,
             part |-> s.op.currentPartition_]]]

\* windowFunctions_[i]->resetPartition(currentPartition_.get()) for every i
ResetFunctions(s) ==
    [s EXCEPT !.log.events = @ \o
        [i \in 1..Len(windowFrames_) |->
            [ev |-> "resetPartition", w |-> i,
             part |-> s.op.currentPartition_]]]

\* A faulty variant of ResetToNext: hasNextPartition is not asked.
ResetToNextUnchecked(s) == ResetFunctions(nextPartition(s))

\* The if statement of callResetPartition
ResetToNext(s) ==
    IF hasNextPartition(s) THEN ResetFunctions(nextPartition(s)) ELSE s

\* A faulty variant of callResetPartition: the cursor is not set back to 0.
callResetPartitionKeepCursor(s) ==
    ResetToNext([s EXCEPT !.op.peerStartRow_ = 0,
                          !.op.peerEndRow_ = 0,
                          !.op.currentPartition_ = NoPartition])

\* A faulty variant of callResetPartition: the peer group of the last row
\* processed is kept.
callResetPartitionKeepPeers(s) ==
    ResetToNext([s EXCEPT !.op.partitionOffset_ = 0,
                          !.op.currentPartition_ = NoPartition])

\* Window::callResetPartition
callResetPartition(s) ==
    ResetToNext([s EXCEPT !.op.partitionOffset_ = 0,
                          !.op.peerStartRow_ = 0,
                          !.op.peerEndRow_ = 0,
                          !.op.currentPartition_ = NoPartition])

\* A faulty variant of ResizeFill: the flags that the selector holds are kept.
ResizeFillKeepsFlags(s, i, numRows) ==
    [s EXCEPT !.op.validFrames_[i] =
        [j \in 1..numRows |-> IF j <= Len(@) THEN @[j] ELSE TRUE]]

\* validFrames_[i].resizeFill(numRows, true)
ResizeFill(s, i, numRows) ==
    [s EXCEPT !.op.validFrames_[i] = FillN(numRows, TRUE)]

\* What one updateFrameBounds call leaves behind: r.bounds in the buffer of
\* its side, its extractColumn calls in the log, and its exception if any.
StoreBound(s, i, isStartBound, startRow, r) ==
    [s EXCEPT
        !.op.frameStartBuffers_[i] = IF isStartBound THEN r.bounds ELSE @,
        !.op.frameEndBuffers_[i] = IF isStartBound THEN @ ELSE r.bounds,
        !.op.failed = r.err,
        !.log.badOffset = IF r.err # NoError THEN r.bad ELSE @,
        !.log.events = @ \o
            [k \in 1..Len(r.extracts) |->
                [ev |-> "extractColumn", w |-> i,
                 part |-> s.op.currentPartition_,
                 isStartBound |-> isStartBound,
                 channel |-> r.extracts[k].channel,
                 startOffset |-> r.extracts[k].startOffset,
                 numRows |-> r.extracts[k].numRows,
                 startRow |-> startRow]]]

\* updateFrameBounds(windowFrame, isStartBound, ...) of function i
ResolveBound(s, i, isStartBound, startRow, numRows) ==
    IF Failed(s) THEN s
    ELSE StoreBound(
             s, i, isStartBound, startRow,
             updateFrameBounds(
                 windowFrames_[i], isStartBound, CurrentPartition(s),
                 s.op.partitionOffset_, startRow, numRows,
                 s.op.peerStartBuffer_, s.op.peerEndBuffer_,
                 IF isStartBound THEN s.op.frameStartBuffers_[i]
                 ELSE s.op.frameEndBuffers_[i]))

\* The buffers of function i after computeValidFrames returned v.
StoreValidFrames(s, i, v) ==
    [s EXCEPT !.op.frameStartBuffers_[i] = v.rawFrameStarts,
              !.op.frameEndBuffers_[i] = v.rawFrameEnds,
              !.op.validFrames_[i] = v.validFrames]

\* A faulty variant of NeedsValidFrames: computeValidFrames runs for every frame.
NeedsValidFramesAlways(windowFrame) == TRUE

\* if (windowFrames_[i].start || windowFrames_[i].end) computeValidFrames
NeedsValidFrames(windowFrame) ==
    windowFrame.start.present \/ windowFrame.end.present

\* log.scratch[i] keeps what bound resolution produced for function i,
\* before computeValidFrames touches it.
NoteResolved(s, i, numRows) ==
    [s EXCEPT !.log.scratch[i] =
        [rawStarts |-> SubSeq(s.op.frameStartBuffers_[i], 1, numRows),
         rawEnds |-> SubSeq(s.op.frameEndBuffers_[i], 1, numRows),
         repaired |-> NeedsValidFrames(windowFrames_[i])]]

\* An exception for a selector with a row that is not valid.
FailOnInvalid(s, i) ==
    [s EXCEPT !.op.failed =
        IF \E j \in 1..Len(s.op.validFrames_[i]) : ~s.op.validFrames_[i][j]
        THEN InvalidBoundError ELSE @]

\* A faulty variant of RepairFrames: an empty frame is thrown as an error.
RepairFramesThrows(s, i, numRows) ==
    IF Failed(s) THEN s
    ELSE IF NeedsValidFrames(windowFrames_[i])
    THEN FailOnInvalid(
             StoreValidFrames(
                 NoteResolved(s, i, numRows), i,
                 computeValidFrames(
                     PartNumRows(CurrentPartition(s)) - 1, numRows,
                     s.op.frameStartBuffers_[i], s.op.frameEndBuffers_[i],
                     s.op.validFrames_[i])),
             i)
    ELSE NoteResolved(s, i, numRows)

\* The computeValidFrames call of computePeerAndFrameBuffers and its
\* condition.
RepairFrames(s, i, numRows) ==
    IF Failed(s) THEN s
    ELSE IF NeedsValidFrames(windowFrames_[i])
    THEN StoreValidFrames(
             NoteResolved(s, i, numRows), i,
             computeValidFrames(
                 PartNumRows(CurrentPartition(s)) - 1, numRows,
                 s.op.frameStartBuffers_[i], s.op.frameEndBuffers_[i],
                 s.op.validFrames_[i]))
    ELSE NoteResolved(s, i, numRows)

\* The body of the loop over the functions in computePeerAndFrameBuffers.
FrameBuffersOf(s, i, startRow, numRows) ==
    RepairFrames(
        ResolveBound(
            ResolveBound(ResizeFill(s, i, numRows), i, TRUE, startRow, numRows),
            i, FALSE, startRow, numRows),
        i, numRows)

RECURSIVE FrameBuffersLoop(_, _, _, _)
FrameBuffersLoop(s, i, startRow, numRows) ==
    IF i > Len(windowFrames_) \/ Failed(s) THEN s
    ELSE FrameBuffersLoop(
             FrameBuffersOf(s, i, startRow, numRows), i + 1, startRow, numRows)

\* std::tie(peerStartRow_, peerEndRow_) = computePeerBuffers(...) returned
\* peers.
StorePeers(s, startRow, endRow, peers) ==
    [s EXCEPT
        !.op.peerStartRow_ = peers.peerStart,
        !.op.peerEndRow_ = peers.peerEnd,
        !.op.peerStartBuffer_ = WritePrefix(@, peers.rawPeerStarts),
        !.op.peerEndBuffer_ = WritePrefix(@, peers.rawPeerEnds),
        !.log.events = Append(@,
            [ev |-> "computePeerBuffers",
             part |-> s.op.currentPartition_,
             startRow |-> startRow, endRow |-> endRow,
             prevPeerStart |-> s.op.peerStartRow_,
             prevPeerEnd |-> s.op.peerEndRow_,
             peerStart |-> peers.peerStart,
             peerEnd |-> peers.peerEnd])]

\* Window::computePeerAndFrameBuffers
computePeerAndFrameBuffers(s, startRow, endRow) ==
    FrameBuffersLoop(
        StorePeers(
            s, startRow, endRow,
            computePeerBuffers(
                CurrentPartition(s), startRow, endRow,
                s.op.peerStartRow_, s.op.peerEndRow_)),
        1, startRow, endRow - startRow)

\* Window::getInputColumns; the event also keeps what the frame buffers held
\* when the slice was started.
getInputColumns(s, startRow, endRow, resultOffset) ==
    LogEvent(s, [ev |-> "getInputColumns",
                 call |-> s.log.calls,
                 part |-> s.op.currentPartition_,
                 startRow |-> startRow,
                 startOffset |-> s.op.partitionOffset_,
                 numRows |-> endRow - startRow,
                 resultOffset |-> resultOffset,
                 frameStartBuffers |-> s.op.frameStartBuffers_,
                 frameEndBuffers |-> s.op.frameEndBuffers_])

\* A faulty variant of ApplyFunctions: every function is given the frame buffers
\* of the first one.
ApplyFunctionsFirstBuffers(s, startRow, endRow, resultOffset) ==
    IF Failed(s) THEN s
    ELSE [s EXCEPT !.log.events = @ \o
        [w \in 1..Len(windowFrames_) |->
            [ev |-> "apply", w |-> w,
             call |-> s.log.calls,
             part |-> s.op.currentPartition_,
             startRow |-> startRow, endRow |-> endRow,
             resultOffset |-> resultOffset,
             peerStarts |->
                 SubSeq(s.op.peerStartBuffer_, 1, endRow - startRow),
             peerEnds |->
                 SubSeq(s.op.peerEndBuffer_, 1, endRow - startRow),
             frameStarts |->
                 SubSeq(s.op.frameStartBuffers_[1], 1, endRow - startRow),
             frameEnds |->
                 SubSeq(s.op.frameEndBuffers_[1], 1, endRow - startRow),
             validFrames |-> s.op.validFrames_[w],
             rawStarts |-> s.log.scratch[w].rawStarts,
             rawEnds |-> s.log.scratch[w].rawEnds,
             repaired |-> s.log.scratch[w].repaired]]]

\* windowFunctions_[w]->apply(...) for every w: each call is logged with
\* the buffers it is given.
ApplyFunctions(s, startRow, endRow, resultOffset) ==
    IF Failed(s) THEN s
    ELSE [s EXCEPT !.log.events = @ \o
        [w \in 1..Len(windowFrames_) |->
            [ev |-> "apply", w |-> w,
             call |-> s.log.calls,
             part |-> s.op.currentPartition_,
             startRow |-> startRow, endRow |-> endRow,
             resultOffset |-> resultOffset,
             peerStarts |->
                 SubSeq(s.op.peerStartBuffer_, 1, endRow - startRow),
             peerEnds |->
                 SubSeq(s.op.peerEndBuffer_, 1, endRow - startRow),
             frameStarts |->
                 SubSeq(s.op.frameStartBuffers_[w], 1, endRow - startRow),
             frameEnds |->
                 SubSeq(s.op.frameEndBuffers_[w], 1, endRow - startRow),
             validFrames |-> s.op.validFrames_[w],
             rawStarts |-> s.log.scratch[w].rawStarts,
             rawEnds |-> s.log.scratch[w].rawEnds,
             repaired |-> s.log.scratch[w].repaired]]]

\* A faulty variant of AdvanceRows: the processed rows are not counted.
AdvanceRowsCursorOnly(s, numRows) ==
    IF Failed(s) THEN s
    ELSE [s EXCEPT !.op.partitionOffset_ = @ + numRows]

\* A faulty variant of AdvanceRows: the rows are counted although the slice
\* has thrown.
AdvanceRowsAfterThrow(s, numRows) ==
    [s EXCEPT !.op.numProcessedRows_ = @ + numRows,
              !.op.partitionOffset_ = @ + numRows]

\* numProcessedRows_ += numRows; partitionOffset_ += numRows
AdvanceRows(s, numRows) ==
    IF Failed(s) THEN s
    ELSE [s EXCEPT !.op.numProcessedRows_ = @ + numRows,
                   !.op.partitionOffset_ = @ + numRows]

\* Window::callApplyForPartitionRows
callApplyForPartitionRows(s, startRow, endRow, resultOffset) ==
    AdvanceRows(
        ApplyFunctions(
            computePeerAndFrameBuffers(
                getInputColumns(s, startRow, endRow, resultOffset),
                startRow, endRow),
            startRow, endRow, resultOffset),
        endRow - startRow)

\* The while loop of Window::callApplyLoop.  PartitionDone is the rest of
\* the branch that outputs all the rows left of the current partition, once
\* callApplyForPartitionRows has returned s.
RECURSIVE ApplyLoop(_, _, _)

\* if (!currentPartition_) break; else the next iteration
NextIteration(s, resultIndex, numOutputRowsLeft) ==
    IF s.op.currentPartition_ = NoPartition THEN s
    ELSE ApplyLoop(s, resultIndex, numOutputRowsLeft)

\* A faulty variant of PartitionDone: resultIndex is not advanced.
PartitionDoneSameIndex(s, resultIndex, numOutputRowsLeft, rowsForCurrentPartition) ==
    IF Failed(s) THEN s
    ELSE NextIteration(
             callResetPartition(s), resultIndex,
             numOutputRowsLeft - rowsForCurrentPartition)

\* A faulty variant of PartitionDone: numOutputRowsLeft is not decreased.
PartitionDoneKeepsBudget(s, resultIndex, numOutputRowsLeft, rowsForCurrentPartition) ==
    IF Failed(s) THEN s
    ELSE NextIteration(
             callResetPartition(s), resultIndex + rowsForCurrentPartition,
             numOutputRowsLeft)

PartitionDone(s, resultIndex, numOutputRowsLeft, rowsForCurrentPartition) ==
    IF Failed(s) THEN s
    ELSE NextIteration(
             callResetPartition(s), resultIndex + rowsForCurrentPartition,
             numOutputRowsLeft - rowsForCurrentPartition)

RowsForCurrentPartition(s) ==
    PartNumRows(CurrentPartition(s)) - s.op.partitionOffset_

\* A faulty variant of ApplyLoop: a partition whose rest fills the batch exactly
\* is treated as fitting only partially.
ApplyLoopStrict(s, resultIndex, numOutputRowsLeft) ==
    IF ~(numOutputRowsLeft > 0) THEN s
    ELSE IF RowsForCurrentPartition(s) < numOutputRowsLeft
    THEN PartitionDone(
             callApplyForPartitionRows(
                 s, s.op.partitionOffset_,
                 s.op.partitionOffset_ + RowsForCurrentPartition(s),
                 resultIndex),
             resultIndex, numOutputRowsLeft, RowsForCurrentPartition(s))
    ELSE callApplyForPartitionRows(
             s, s.op.partitionOffset_,
             s.op.partitionOffset_ + numOutputRowsLeft, resultIndex)

\* The while loop of Window::callApplyLoop
ApplyLoop(s, resultIndex, numOutputRowsLeft) ==
    IF ~(numOutputRowsLeft > 0) THEN s
    ELSE IF RowsForCurrentPartition(s) <= numOutputRowsLeft
    THEN PartitionDone(
             callApplyForPartitionRows(
                 s, s.op.partitionOffset_,
                 s.op.partitionOffset_ + RowsForCurrentPartition(s),
                 resultIndex),
             resultIndex, numOutputRowsLeft, RowsForCurrentPartition(s))
    ELSE callApplyForPartitionRows(
             s, s.op.partitionOffset_,
             s.op.partitionOffset_ + numOutputRowsLeft, resultIndex)

\* Window::callApplyLoop
callApplyLoop(s, numOutputRows) == ApplyLoop(s, 0, numOutputRows)

\* log.result is what the last call of the driver returned, if it was a
\* getOutput: "nullptr", "batch" or "exception".
Returns(s, r) == [s EXCEPT !.log.result = r]

\* A returned batch is logged with the size it was created with.
ReturnBatch(s) ==
    IF Failed(s) THEN Returns(s, "exception")
    ELSE [s EXCEPT !.log.result = "batch",
                   !.log.returned = Append(@, s.log.allocated[s.log.calls])]

\* BaseVector::create(outputType_, numOutputRows, ...)
CreateResult(s, numOutputRows) ==
    [s EXCEPT !.log.calls = @ + 1,
              !.log.allocated = Append(@, numOutputRows)]

\* A faulty variant of OutputBatch: the batch takes all the rows that are left.
OutputBatchAllRows(s) ==
    IF s.op.currentPartition_ = NoPartition THEN Returns(s, "nullptr")
    ELSE ReturnBatch(
             callApplyLoop(
                 CreateResult(s, s.op.numRows_ - s.op.numProcessedRows_),
                 s.op.numRows_ - s.op.numProcessedRows_))

\* Window::getOutput from "auto numOutputRows" on
OutputBatch(s) ==
    IF s.op.currentPartition_ = NoPartition THEN Returns(s, "nullptr")
    ELSE ReturnBatch(
             callApplyLoop(
                 CreateResult(
                     s, Min(numRowsPerOutput_,
                            s.op.numRows_ - s.op.numProcessedRows_)),
                 Min(numRowsPerOutput_,
                     s.op.numRows_ - s.op.numProcessedRows_)))

\* A faulty variant of getOutput: callResetPartition is called whether or not a
\* partition is held.
getOutputAlwaysResets(s) ==
    IF s.op.numRows_ = 0 THEN Returns(s, "nullptr")
    ELSE IF s.op.numRows_ - s.op.numProcessedRows_ = 0
    THEN Returns(s, "nullptr")
    ELSE OutputBatch(callResetPartition(s))

\* Window::getOutput
getOutput(s) ==
    IF s.op.numRows_ = 0 THEN Returns(s, "nullptr")
    ELSE IF s.op.numRows_ - s.op.numProcessedRows_ = 0
    THEN Returns(s, "nullptr")
    ELSE OutputBatch(IF s.op.currentPartition_ = NoPartition
                     THEN callResetPartition(s) ELSE s)

\* A faulty variant of addInput: the cursor is moved by the size of the input.
addInputMovesCursor(s, inputSize) ==
    [s EXCEPT !.op.build.numRows = @ + inputSize,
              !.op.numRows_ = @ + inputSize,
              !.op.partitionOffset_ = @ + inputSize]

\* Window::addInput
addInput(s, inputSize) ==
    [s EXCEPT !.op.build.numRows = @ + inputSize,
              !.op.numRows_ = @ + inputSize]

\* A faulty variant of noMoreInput: the build is told whether or not rows came.
noMoreInputAlwaysTellsBuild(s) ==
    [s EXCEPT !.op.noMoreInput_ = TRUE,
              !.op.build.sorted = TRUE]

\* Window::noMoreInput
noMoreInput(s) ==
    [s EXCEPT !.op.noMoreInput_ = TRUE,
              !.op.build.sorted = IF s.op.numRows_ = 0 THEN @ ELSE TRUE]

----------------------------------------------------------------------------
\* The inputs the operator is run on.

\* ORDER BY keys of a sorted partition of n rows, as dense ranks.
KeySeqs(n, peers) ==
    {k \in [1..n -> 1..n] :
        /\ k[1] = 1
        /\ \A j \in 2..n : k[j] \in {k[j - 1], k[j - 1] + 1}
        /\ ~peers => \A j \in 1..n : k[j] = j}

\* The partitions of n rows: peers says whether rows may share an ORDER BY
\* key, offs is what the offset column may hold.
PartitionSet(n, peers, offs) ==
    {[j \in 1..n |-> [key |-> k[j], off |-> o[j]]] :
        k \in KeySeqs(n, peers), o \in [1..n -> offs]}

\* The lists of non-empty partitions with at most maxRows rows in total.
RECURSIVE PartitionLists(_, _, _)
PartitionLists(maxRows, peers, offs) ==
    {<<>>} \cup
    UNION {{<<p>> \o rest :
               p \in PartitionSet(n, peers, offs),
               rest \in PartitionLists(maxRows - n, peers, offs)} :
           n \in 1..maxRows}

\* The number of rows of all the partitions: what upstream will deliver.
RECURSIVE TotalRows(_)
TotalRows(parts) ==
    IF parts = <<>> THEN 0 ELSE Len(Head(parts)) + TotalRows(Tail(parts))

\* A bound side: its BoundType and its FrameChannelArg, as createWindowFrame
\* builds them (an argument exactly on k bounds).
PlainBounds ==
    {[type |-> b, arg |-> NullOpt] :
        b \in {kUnboundedPreceding, kCurrentRow, kUnboundedFollowing}}
ConstantOffsets == {Offset(0, k) : k \in 1..MaxK}
ConstantKBounds ==
    {[type |-> b, arg |-> ConstantArg(c)] :
        b \in {kPreceding, kFollowing}, c \in ConstantOffsets}
ColumnKBounds ==
    {[type |-> b, arg |-> ColumnArg(OffsetChannel)] :
        b \in {kPreceding, kFollowing}}

\* Window::createWindowFrame
WindowFrame(type, startBound, endBound) ==
    [type |-> type, startType |-> startBound.type, endType |-> endBound.type,
     start |-> startBound.arg, end |-> endBound.arg]

Frames(types, startBounds, endBounds) ==
    {WindowFrame(t, sb, eb) : t \in types, sb \in startBounds, eb \in endBounds}

HasColumnArg(f) ==
    \/ f.start.present /\ f.start.index # kConstantChannel
    \/ f.end.present /\ f.end.index # kConstantChannel

\* Frames in ROWS mode with no offset or constant offsets.
RowsFrames ==
    Frames({kRows}, PlainBounds \cup ConstantKBounds,
           PlainBounds \cup ConstantKBounds)

\* Frames in RANGE mode: without offsets, and with a k bound on one side.
RangeFrames ==
    Frames({kRange}, PlainBounds, PlainBounds)
    \cup Frames({kRange},
                {[type |-> kPreceding, arg |-> ConstantArg(Offset(0, MaxK))]},
                PlainBounds)
    \cup Frames({kRange}, PlainBounds,
                {[type |-> kFollowing, arg |-> ConstantArg(Offset(0, MaxK))]})

\* Frames in ROWS mode with an offset column on at least one side.
ColumnFrames ==
    {f \in Frames({kRows}, PlainBounds \cup ColumnKBounds,
                  PlainBounds \cup ColumnKBounds) : HasColumnArg(f)}

ColumnOffsets == {Offset(0, 0), Offset(0, MaxK)}

\* AlignedBuffer::allocate<vector_size_t>(numRowsPerOutput_): the content
\* is not initialised and is never read before it is written.
Unset == "unset"

\* The state after Window::Window
InitOp(numFuncs, numRowsPerOutput) ==
    [numRows_ |-> 0,
     numProcessedRows_ |-> 0,
     partitionOffset_ |-> 0,
     peerStartRow_ |-> 0,
     peerEndRow_ |-> 0,
     currentPartition_ |-> NoPartition,
     noMoreInput_ |-> FALSE,
     peerStartBuffer_ |-> FillN(numRowsPerOutput, Unset),
     peerEndBuffer_ |-> FillN(numRowsPerOutput, Unset),
     frameStartBuffers_ |->
         [w \in 1..numFuncs |-> FillN(numRowsPerOutput, Unset)],
     frameEndBuffers_ |->
         [w \in 1..numFuncs |-> FillN(numRowsPerOutput, Unset)],
     validFrames_ |-> [w \in 1..numFuncs |-> FillN(numRowsPerOutput, TRUE)],
     build |-> [numRows |-> 0, sorted |-> FALSE, currentPartition |-> 0],
     failed |-> NoError]

InitLog(numFuncs) ==
    [events |-> <<>>,
     calls |-> 0,
     allocated |-> <<>>,
     returned |-> <<>>,
     result |-> "none",
     badOffset |-> NullOffset,
     scratch |-> [w \in 1..numFuncs |->
                     [rawStarts |-> <<>>, rawEnds |-> <<>>,
                      repaired |-> FALSE]]]

InitWith(frameLists, partitionLists) ==
    /\ windowFrames_ \in frameLists
    /\ partitions \in partitionLists
    /\ numRowsPerOutput_ \in 1..MaxBudget
    /\ op = InitOp(Len(windowFrames_), numRowsPerOutput_)
    /\ log = InitLog(Len(windowFrames_))
    /\ planBuilder = NoPlanBuilder
    /\ tableWriter = NoTableWriter
    /\ extractorCache = NoExtractorCache
    /\ exchangeQueue = NoExchangeQueue

\* The operators that are run: one function with a ROWS frame over
\* partitions of rows with distinct ORDER BY keys, one function with a RANGE
\* frame over partitions with peer groups, or one function whose ROWS frame
\* reads its offsets from the offset column.
Init ==
    \/ InitWith({<<f>> : f \in RowsFrames},
                PartitionLists(MaxRows, FALSE, {Offset(0, 0)}))
    \/ InitWith({<<f>> : f \in RangeFrames},
                PartitionLists(MaxRows, TRUE, {Offset(0, 0)}))
    \/ InitWith({<<f>> : f \in ColumnFrames},
                PartitionLists(MaxRows - 1, FALSE, ColumnOffsets))

\* The frames that two functions of one operator are given: ROWS frames
\* without offset, with constant offsets and with offsets from the offset
\* column, and a RANGE frame.
SharedFrames ==
    {WindowFrame(kRows, [type |-> kUnboundedPreceding, arg |-> NullOpt],
                 [type |-> kCurrentRow, arg |-> NullOpt]),
     WindowFrame(kRows, [type |-> kPreceding, arg |-> ConstantArg(Offset(0, 1))],
                 [type |-> kFollowing, arg |-> ConstantArg(Offset(0, 1))]),
     WindowFrame(kRows, [type |-> kPreceding, arg |-> ColumnArg(OffsetChannel)],
                 [type |-> kCurrentRow, arg |-> NullOpt]),
     WindowFrame(kRows, [type |-> kPreceding, arg |-> ColumnArg(OffsetChannel)],
                 [type |-> kFollowing, arg |-> ColumnArg(OffsetChannel)]),
     WindowFrame(kRange, [type |-> kCurrentRow, arg |-> NullOpt],
                 [type |-> kUnboundedFollowing, arg |-> NullOpt])}

\* Operators with two window functions.
InitTwo ==
    InitWith({<<f, g>> : f \in SharedFrames, g \in SharedFrames},
             PartitionLists(MaxRows, FALSE, {Offset(0, 1)}))

----------------------------------------------------------------------------
\* Construction from the plan node.  A frame of the plan is
\* core::WindowNode::Frame: [type, startType, startValue, endType, endValue],
\* where a value is an expression: nullptr, a constant or a column of the
\* input.

INTEGER == "INTEGER"
BIGINT == "BIGINT"
VARCHAR == "VARCHAR"

NullExpr == [kind |-> "nullptr", type |-> "none", value |-> NullOffset, channel |-> kConstantChannel]
ConstantTypedExpr(type, value) == [kind |-> "constant", type |-> type, value |-> value, channel |-> kConstantChannel]
FieldAccessTypedExpr(type, channel) == [kind |-> "field", type |-> type, value |-> NullOffset, channel |-> channel]

\* exprToChannel
exprToChannel(expr) ==
    IF expr.kind = "field" THEN expr.channel ELSE kConstantChannel

FrameTypeError == "k frame bound must be INTEGER or BIGINT type"

\* The lambda frameBoundCheck of createWindowFrame
frameBoundCheck(expr) ==
    expr = NullExpr \/ expr.type \in {INTEGER, BIGINT}

\* A faulty variant of createFrameChannelArg: a negative constant is accepted.
createFrameChannelArgNoSignCheck(expr) ==
    IF expr = NullExpr
    THEN [err |-> NoError, bad |-> NullOffset, arg |-> NullOpt]
    ELSE IF exprToChannel(expr) = kConstantChannel
    THEN IF expr.value.isNull
         THEN [err |-> NullOffsetError, bad |-> expr.value, arg |-> NullOpt]
         ELSE [err |-> NoError, bad |-> NullOffset,
               arg |-> ConstantArg(expr.value)]
    ELSE [err |-> NoError, bad |-> NullOffset,
          arg |-> ColumnArg(exprToChannel(expr))]

\* A faulty variant of createFrameChannelArg: no argument is made for a column.
createFrameChannelArgDropsColumn(expr) ==
    IF expr = NullExpr
    THEN [err |-> NoError, bad |-> NullOffset, arg |-> NullOpt]
    ELSE IF exprToChannel(expr) = kConstantChannel
    THEN IF expr.value.isNull
         THEN [err |-> NullOffsetError, bad |-> expr.value, arg |-> NullOpt]
         ELSE IF IsNegative(expr.value)
         THEN [err |-> NegativeOffsetError, bad |-> expr.value,
               arg |-> NullOpt]
         ELSE [err |-> NoError, bad |-> NullOffset,
               arg |-> ConstantArg(expr.value)]
    ELSE [err |-> NoError, bad |-> NullOffset, arg |-> NullOpt]

\* The lambda createFrameChannelArg of createWindowFrame
createFrameChannelArg(expr) ==
    IF expr = NullExpr
    THEN [err |-> NoError, bad |-> NullOffset, arg |-> NullOpt]
    ELSE IF exprToChannel(expr) = kConstantChannel
    THEN IF expr.value.isNull
         THEN [err |-> NullOffsetError, bad |-> expr.value, arg |-> NullOpt]
         ELSE IF IsNegative(expr.value)
         THEN [err |-> NegativeOffsetError, bad |-> expr.value,
               arg |-> NullOpt]
         ELSE [err |-> NoError, bad |-> NullOffset,
               arg |-> ConstantArg(expr.value)]
    ELSE [err |-> NoError, bad |-> NullOffset,
          arg |-> ColumnArg(exprToChannel(expr))]

\* Window::createWindowFrame: [err, bad, frames], frames holding the
\* WindowFrame if none of the checks failed.
createWindowFrame(frame) ==
    LET start == createFrameChannelArg(frame.startValue)
        end == createFrameChannelArg(frame.endValue)
        Fail(e, v) == [err |-> e, bad |-> v, frames |-> <<>>]
    IN  IF /\ frame.type = kRows
           /\ ~(frameBoundCheck(frame.startValue)
                    /\ frameBoundCheck(frame.endValue))
        THEN Fail(FrameTypeError, NullOffset)
        ELSE IF start.err # NoError THEN Fail(start.err, start.bad)
        ELSE IF end.err # NoError THEN Fail(end.err, end.bad)
        ELSE [err |-> NoError, bad |-> NullOffset,
              frames |->
                  <<WindowFrame(
                        frame.type,
                        [type |-> frame.startType, arg |-> start.arg],
                        [type |-> frame.endType, arg |-> end.arg])>>]

\* Window::createWindowFunctions: the frames pushed to windowFrames_ until a
\* createWindowFrame throws.
RECURSIVE createWindowFunctions(_)
createWindowFunctions(frames) ==
    IF frames = <<>> THEN [err |-> NoError, bad |-> NullOffset, frames |-> <<>>]
    ELSE LET first == createWindowFrame(Head(frames))
             rest == createWindowFunctions(Tail(frames))
         IN  IF first.err # NoError THEN first
             ELSE [err |-> rest.err, bad |-> rest.bad,
                   frames |-> first.frames \o rest.frames]

\* What the plan may hold as the value of a k bound: constants that are
\* null, negative, small or beyond 32 bits, a constant of a wrong type, the
\* offset column.
WideOffset == Offset(1, 1)
PlanConstants ==
    {ConstantTypedExpr(BIGINT, v) :
        v \in {NullOffset, Offset(0, -1), Offset(0, 1), WideOffset}}
    \cup {ConstantTypedExpr(VARCHAR, Offset(0, 1))}
PlanPlainBounds ==
    {[type |-> b, value |-> NullExpr] :
        b \in {kUnboundedPreceding, kCurrentRow, kUnboundedFollowing}}
PlanConstantKBounds ==
    {[type |-> b, value |-> c] :
        b \in {kPreceding, kFollowing}, c \in PlanConstants}
PlanColumnKBounds ==
    {[type |-> b, value |-> FieldAccessTypedExpr(BIGINT, OffsetChannel)] :
        b \in {kPreceding, kFollowing}}

\* core::WindowNode::Frame
PlanFrame(type, startBound, endBound) ==
    [type |-> type,
     startType |-> startBound.type, startValue |-> startBound.value,
     endType |-> endBound.type, endValue |-> endBound.value]

\* Plans of one function with constant offsets, in ROWS and in RANGE mode.
ConstantPlans ==
    {<<PlanFrame(t, sb, eb)>> :
        t \in WindowTypes,
        sb \in PlanPlainBounds \cup PlanConstantKBounds,
        eb \in PlanPlainBounds \cup PlanConstantKBounds}

\* Plans of one function in ROWS mode that reads offsets from the offset
\* column on the start side, on the end side or on both.
ColumnPlans ==
    {<<PlanFrame(kRows, sb, eb)>> :
        sb \in PlanPlainBounds \cup PlanColumnKBounds,
        eb \in PlanPlainBounds \cup PlanColumnKBounds} \
    {<<PlanFrame(kRows, sb, eb)>> : sb \in PlanPlainBounds, eb \in PlanPlainBounds}

\* What the offset column may hold: null, negative, small or beyond 32 bits.
AnyColumnOffsets == {NullOffset, Offset(0, -1), Offset(0, 1), WideOffset}

\* The state after Window::Window ran on a plan: if createWindowFunctions
\* threw there is no operator, the state keeps the exception.
InitFromPlan(plans, partitionLists) ==
    /\ \E plan \in plans :
           /\ windowFrames_ = createWindowFunctions(plan).frames
           /\ numRowsPerOutput_ \in 1..MaxBudget
           /\ op = [InitOp(Len(windowFrames_), numRowsPerOutput_)
                        EXCEPT !.failed = createWindowFunctions(plan).err]
           /\ log = [InitLog(Len(windowFrames_))
                        EXCEPT !.badOffset = createWindowFunctions(plan).bad]
    /\ partitions \in partitionLists
    /\ planBuilder = NoPlanBuilder
    /\ tableWriter = NoTableWriter
    /\ extractorCache = NoExtractorCache
    /\ exchangeQueue = NoExchangeQueue

\* Operators built from a plan: one function whose frame has constant
\* offsets of every kind, or one function that reads its offsets from a
\* column holding values of every kind.
InitOffsets ==
    \/ InitFromPlan(ConstantPlans,
                    PartitionLists(MaxRows - 1, FALSE, {Offset(0, 0)}))
    \/ InitFromPlan(ColumnPlans,
                    PartitionLists(MaxRows - 1, FALSE, AnyColumnOffsets))

----------------------------------------------------------------------------
\* The driver's calls.  The driver stops calling once a call has thrown.

State == [op |-> op, log |-> log]

Becomes(s) ==
    /\ op' = s.op
    /\ log' = s.log
    /\ UNCHANGED <<partitions, windowFrames_, numRowsPerOutput_, planBuilder, tableWriter, extractorCache, exchangeQueue>>

\* addInput with a batch of inputSize rows, possibly empty.
AddInput ==
    /\ op.failed = NoError
    /\ ~op.noMoreInput_
    /\ \E inputSize \in 0..(TotalRows(partitions) - op.build.numRows) :
           Becomes(Returns(addInput(State, inputSize), "none"))

\* noMoreInput, once upstream has delivered all its rows.
NoMoreInput ==
    /\ op.failed = NoError
    /\ ~op.noMoreInput_
    /\ op.build.numRows = TotalRows(partitions)
    /\ Becomes(Returns(noMoreInput(State), "none"))

\* getOutput
GetOutput ==
    /\ op.failed = NoError
    /\ Becomes(getOutput(State))

Next == AddInput \/ NoMoreInput \/ GetOutput

Spec == Init /\ [][Next]_vars

SpecOffsets == InitOffsets /\ [][Next]_vars

SpecTwo == InitTwo /\ [][Next]_vars

----------------------------------------------------------------------------
\* What the log says.

ApplyEvents == SelectSeq(log.events, LAMBDA e : e.ev = "apply")
SliceEvents == SelectSeq(log.events, LAMBDA e : e.ev = "getInputColumns")

\* The slices of partition p, in the order they were processed.
SlicesOf(p) == SelectSeq(SliceEvents, LAMBDA e : e.part = p)

\* The apply calls on function w made during the c-th getOutput that
\* created a batch.
AppliesOf(c, w) == SelectSeq(ApplyEvents, LAMBDA e : e.call = c /\ e.w = w)

SliceSizes(events) == [k \in 1..Len(events) |-> events[k].endRow - events[k].startRow]

\* The positions of the slice of an apply call, and its partition's last row.
Positions(e) == 1..(e.endRow - e.startRow)
LastRow(e) == Len(partitions[e.part]) - 1

\* Partitions the operator has moved past.
IsLeft(p) ==
    \/ p < op.build.currentPartition
    \/ p = op.build.currentPartition /\ op.currentPartition_ = NoPartition

InputRows == TotalRows(partitions)

----------------------------------------------------------------------------
\* C1: after noMoreInput every getOutput call that does not throw returns a
\* batch of min(N, R - rows already returned) rows while fewer than R rows
\* have been returned, and nullptr once all R rows have been returned.
C1_BatchSizes ==
    /\ \A k \in 1..Len(log.returned) :
           /\ log.returned[k] >= 1
           /\ log.returned[k] =
                  Min(numRowsPerOutput_,
                      InputRows - SumSeq(SubSeq(log.returned, 1, k - 1)))
    /\ SumSeq(log.returned) <= InputRows
    /\ (op.noMoreInput_ /\ log.result = "nullptr")
           => SumSeq(log.returned) = InputRows
    /\ log.result = "batch" => op.noMoreInput_

\* Three rows or more came out as a full batch, a shorter last batch and
\* then the end of data.
C1_Witness ==
    /\ op.noMoreInput_
    /\ log.result = "nullptr"
    /\ Len(log.returned) >= 2
    /\ log.returned[1] = numRowsPerOutput_
    /\ log.returned[Len(log.returned)] < numRowsPerOutput_

\* C2: the slices of one partition start at row 0, each starts where the one
\* before ended, none is empty or passes the end of the partition, the
\* partition is left only when its slices reach its row count, and the
\* cursor stays inside the current partition.
C2_SlicesContiguous ==
    /\ \A p \in 1..Len(partitions) :
           LET sl == SlicesOf(p)
               end(k) == sl[k].startRow + sl[k].numRows
           IN  /\ \A k \in 1..Len(sl) :
                      /\ sl[k].startRow = IF k = 1 THEN 0 ELSE end(k - 1)
                      /\ sl[k].numRows > 0
                      /\ end(k) <= Len(partitions[p])
               /\ p > op.build.currentPartition => sl = <<>>
               /\ (IsLeft(p) /\ op.failed = NoError)
                      => sl # <<>> /\ end(Len(sl)) = Len(partitions[p])
               /\ (p = op.currentPartition_ /\ op.failed = NoError)
                      => op.partitionOffset_ =
                             IF sl = <<>> THEN 0 ELSE end(Len(sl))
    /\ op.currentPartition_ # NoPartition
           => /\ 0 <= op.partitionOffset_
              /\ op.partitionOffset_ <= Len(partitions[op.currentPartition_])
    /\ (op.noMoreInput_ /\ log.result = "nullptr")
           => \A p \in 1..Len(partitions) : IsLeft(p)

\* A partition was processed in two slices or more and the operator has moved
\* on to the partition after it.
C2_Witness ==
    \E p \in 1..Len(partitions) :
        /\ Len(SlicesOf(p)) >= 2
        /\ p < op.build.currentPartition
        /\ op.failed = NoError

\* C3: the slices of one getOutput call add up to the row count the batch
\* was created with, and each is written at the result offset where the
\* slice before it ended.
C3_BatchFilled ==
    \A c \in 1..log.calls :
        (c < log.calls \/ op.failed = NoError) =>
            LET sl == AppliesOf(c, 1)
            IN  /\ SumSeq(SliceSizes(sl)) = log.allocated[c]
                /\ \A k \in 1..Len(sl) :
                       sl[k].resultOffset =
                           SumSeq(SubSeq(SliceSizes(sl), 1, k - 1))
                /\ SliceSizes(sl) =
                       [k \in 1..Len(sl) |->
                           SelectSeq(SliceEvents,
                                     LAMBDA e : e.call = c)[k].numRows]

\* One batch took the rest of one partition and rows of the next.
C3_Witness ==
    \E c \in 1..log.calls :
        /\ Len(AppliesOf(c, 1)) >= 2
        /\ AppliesOf(c, 1)[1].startRow > 0
        /\ op.failed = NoError

\* C4: in every apply call every row has 0 <= frameStart <= frameEnd <=
\* lastRow or is marked invalid, whatever the frame.
C4_FrameInPartitionOrInvalid ==
    \A k \in 1..Len(ApplyEvents) :
        LET e == ApplyEvents[k]
        IN  \A j \in Positions(e) :
                \/ ~e.validFrames[j]
                \/ /\ 0 <= e.frameStarts[j]
                   /\ e.frameStarts[j] <= e.frameEnds[j]
                   /\ e.frameEnds[j] <= LastRow(e)

\* C5: with a k offset on a bound side a row is valid exactly if its resolved
\* bounds have frameStart <= frameEnd, frameEnd >= 0 and frameStart <= lastRow.
C5_ValidIffResolvedBoundsOk ==
    \A k \in 1..Len(ApplyEvents) :
        LET e == ApplyEvents[k]
            f == windowFrames_[e.w]
        IN  (IsKBound(f.startType) \/ IsKBound(f.endType)) =>
                \A j \in Positions(e) :
                    e.validFrames[j] <=>
                        /\ e.rawStarts[j] <= e.rawEnds[j]
                        /\ e.rawEnds[j] >= 0
                        /\ e.rawStarts[j] <= LastRow(e)

\* A row whose resolved frameStart and frameEnd are both negative went to
\* apply as invalid.
C5_Witness ==
    \E k \in 1..Len(ApplyEvents) :
        LET e == ApplyEvents[k]
        IN  \E j \in Positions(e) :
                /\ e.rawStarts[j] < 0
                /\ e.rawEnds[j] < 0
                /\ e.rawStarts[j] <= e.rawEnds[j]
                /\ ~e.validFrames[j]

\* C6: a row that validity repair marks valid has frameStart = max(resolved
\* frameStart, 0) and frameEnd = min(resolved frameEnd, lastRow).
C6_ValidRowsClamped ==
    \A k \in 1..Len(ApplyEvents) :
        LET e == ApplyEvents[k]
        IN  e.repaired =>
                \A j \in Positions(e) :
                    e.validFrames[j] =>
                        /\ e.frameStarts[j] = Max(e.rawStarts[j], 0)
                        /\ e.frameEnds[j] = Min(e.rawEnds[j], LastRow(e))

\* A valid row was clamped on both sides.
C6_Witness ==
    \E k \in 1..Len(ApplyEvents) :
        LET e == ApplyEvents[k]
        IN  \E j \in Positions(e) :
                /\ e.repaired
                /\ e.validFrames[j]
                /\ e.rawStarts[j] < 0
                /\ e.frameStarts[j] = 0
                /\ e.rawEnds[j] > LastRow(e)
                /\ e.frameEnds[j] = LastRow(e)

\* C7: a row that validity repair marks invalid keeps the frameStart and
\* frameEnd that bound resolution produced.
C7_InvalidRowsUntouched ==
    \A k \in 1..Len(ApplyEvents) :
        LET e == ApplyEvents[k]
        IN  e.repaired =>
                \A j \in Positions(e) :
                    ~e.validFrames[j] =>
                        /\ e.frameStarts[j] = e.rawStarts[j]
                        /\ e.frameEnds[j] = e.rawEnds[j]

\* An invalid row went to apply with a frameStart beyond lastRow, and
\* another with a negative frameEnd.
C7_Witness ==
    \E k \in 1..Len(ApplyEvents) :
        LET e == ApplyEvents[k]
        IN  /\ e.repaired
            /\ \E j \in Positions(e) :
                   ~e.validFrames[j] /\ e.frameStarts[j] > LastRow(e)
            /\ \E j \in Positions(e) :
                   ~e.validFrames[j] /\ e.frameEnds[j] < 0

\* C8: validity repair marks a row invalid exactly if clamping its resolved
\* bounds into the partition would give frameStart > frameEnd.
C8_InvalidIffClampedEmpty ==
    \A k \in 1..Len(ApplyEvents) :
        LET e == ApplyEvents[k]
        IN  e.repaired =>
                \A j \in Positions(e) :
                    ~e.validFrames[j] <=>
                        Max(e.rawStarts[j], 0) > Min(e.rawEnds[j], LastRow(e))

\* ROWS BETWEEN 1 FOLLOWING AND 3 FOLLOWING on a partition of 4 rows: row 2
\* resolves frameEnd = 5 and gets 3, row 3 resolves frameStart = 4 and is
\* invalid.
C8_Witness ==
    \E k \in 1..Len(ApplyEvents) :
        LET e == ApplyEvents[k]
            f == windowFrames_[e.w]
        IN  /\ f.endType = kFollowing
            /\ f.end.constant = Offset(0, 3)
            /\ LastRow(e) = 3
            /\ \E j \in Positions(e) :
                   /\ e.startRow + j - 1 = 2
                   /\ e.rawEnds[j] = 5
                   /\ e.validFrames[j]
                   /\ e.frameEnds[j] = 3
            /\ \E j \in Positions(e) :
                   /\ e.rawStarts[j] = 4
                   /\ ~e.validFrames[j]

\* C9: a function whose frame has no k bound is applied without validity
\* repair: every row valid, the bounds as bound resolution produced them.
C9_NoRepairWithoutKBound ==
    \A k \in 1..Len(ApplyEvents) :
        LET e == ApplyEvents[k]
            f == windowFrames_[e.w]
        IN  (~IsKBound(f.startType) /\ ~IsKBound(f.endType)) =>
                /\ ~e.repaired
                /\ Len(e.validFrames) = e.endRow - e.startRow
                /\ \A j \in Positions(e) :
                       /\ e.validFrames[j]
                       /\ e.frameStarts[j] = e.rawStarts[j]
                       /\ e.frameEnds[j] = e.rawEnds[j]

\* A frame without k bound whose rows validity repair would have marked
\* invalid or clamped went to apply.
C9_Witness ==
    \E k \in 1..Len(ApplyEvents) :
        LET e == ApplyEvents[k]
            f == windowFrames_[e.w]
        IN  /\ ~IsKBound(f.startType) /\ ~IsKBound(f.endType)
            /\ \E j \in Positions(e) :
                   /\ e.validFrames[j]
                   /\ ~IsValidFrame(e.frameStarts[j], e.frameEnds[j], LastRow(e))

\* C10: in ROWS mode a CURRENT ROW bound resolves to startRow + i, so under
\* ROWS BETWEEN UNBOUNDED PRECEDING AND CURRENT ROW partition row r gets
\* frameStart = 0 and frameEnd = r in whichever slice it falls.
C10_RowsCurrentRow ==
    \A k \in 1..Len(ApplyEvents) :
        LET e == ApplyEvents[k]
            f == windowFrames_[e.w]
        IN  f.type = kRows =>
                \A j \in Positions(e) :
                    /\ f.startType = kCurrentRow
                           => e.rawStarts[j] = e.startRow + (j - 1)
                    /\ f.endType = kCurrentRow
                           => e.rawEnds[j] = e.startRow + (j - 1)
                    /\ (f.startType = kUnboundedPreceding
                            /\ f.endType = kCurrentRow)
                           => /\ e.frameStarts[j] = 0
                              /\ e.frameEnds[j] = e.startRow + (j - 1)
                              /\ e.validFrames[j]

\* Under ROWS BETWEEN UNBOUNDED PRECEDING AND CURRENT ROW a slice that starts
\* inside its partition, in a later batch, went to apply.
C10_Witness ==
    \E k \in 1..Len(ApplyEvents) :
        LET e == ApplyEvents[k]
            f == windowFrames_[e.w]
        IN  /\ f.type = kRows
            /\ f.startType = kUnboundedPreceding
            /\ f.endType = kCurrentRow
            /\ e.startRow > 0
            /\ e.call > 1
            /\ e.endRow - e.startRow > 1

\* The first and the last row of the peer group of row r, read off the ORDER
\* BY keys of the partition.
PeerFirstOf(part, r) ==
    CHOOSE q \in 0..r :
        /\ \A x \in q..r : part[x + 1].key = part[r + 1].key
        /\ q = 0 \/ part[q].key # part[r + 1].key
PeerLastOf(part, r) ==
    CHOOSE q \in r..(Len(part) - 1) :
        /\ \A x \in r..q : part[x + 1].key = part[r + 1].key
        /\ q = Len(part) - 1 \/ part[q + 2].key # part[r + 1].key

\* The partition row at position j of the slice of an apply call.
RowOf(e, j) == e.startRow + (j - 1)

\* C11: in RANGE mode a CURRENT ROW bound resolves to the peer boundary that
\* computePeerBuffers gave the row, peerStart on the start side and peerEnd
\* on the end side, which are the first and last row of the row's peer group;
\* under RANGE BETWEEN UNBOUNDED PRECEDING AND CURRENT ROW frameStart = 0 and
\* frameEnd = peerEnd, and frameEnd does not decrease from a row to a later
\* row of the same partition, in the same or in a later slice or batch.
C11_RangeCurrentRow ==
    /\ \A k \in 1..Len(ApplyEvents) :
           LET e == ApplyEvents[k]
               f == windowFrames_[e.w]
           IN  f.type = kRange =>
                   \A j \in Positions(e) :
                       /\ e.peerStarts[j] =
                              PeerFirstOf(partitions[e.part], RowOf(e, j))
                       /\ e.peerEnds[j] =
                              PeerLastOf(partitions[e.part], RowOf(e, j))
                       /\ f.startType = kCurrentRow
                              => /\ e.rawStarts[j] = e.peerStarts[j]
                                 /\ e.frameStarts[j] = e.peerStarts[j]
                       /\ f.endType = kCurrentRow
                              => /\ e.rawEnds[j] = e.peerEnds[j]
                                 /\ e.frameEnds[j] = e.peerEnds[j]
                       /\ (f.startType = kUnboundedPreceding
                               /\ f.endType = kCurrentRow)
                              => /\ e.frameStarts[j] = 0
                                 /\ e.frameEnds[j] = e.peerEnds[j]
                                 /\ e.validFrames[j]
    /\ \A k1, k2 \in 1..Len(ApplyEvents) :
           LET e1 == ApplyEvents[k1]
               e2 == ApplyEvents[k2]
               f == windowFrames_[e1.w]
           IN  (/\ e1.w = e2.w
                /\ e1.part = e2.part
                /\ f.type = kRange
                /\ f.startType = kUnboundedPreceding
                /\ f.endType = kCurrentRow) =>
                   \A j1 \in Positions(e1), j2 \in Positions(e2) :
                       RowOf(e1, j1) <= RowOf(e2, j2)
                           => e1.frameEnds[j1] <= e2.frameEnds[j2]

\* Under RANGE BETWEEN UNBOUNDED PRECEDING AND CURRENT ROW a slice of a later
\* batch started inside a peer group that began in an earlier slice and goes
\* on after the slice's first row.
C11_Witness ==
    \E k \in 1..Len(ApplyEvents) :
        LET e == ApplyEvents[k]
            f == windowFrames_[e.w]
        IN  /\ f.type = kRange
            /\ f.startType = kUnboundedPreceding
            /\ f.endType = kCurrentRow
            /\ e.call > 1
            /\ e.startRow > 0
            /\ e.peerStarts[1] < e.startRow
            /\ e.frameEnds[1] > e.startRow
            /\ e.frameStarts[1] = 0

\* C12: in ROWS and in RANGE mode, on the start and on the end side, an
\* UNBOUNDED PRECEDING bound resolves to 0 and an UNBOUNDED FOLLOWING bound to
\* the last row of the partition the slice belongs to, for every row of the
\* slice.
C12_UnboundedBounds ==
    \A k \in 1..Len(ApplyEvents) :
        LET e == ApplyEvents[k]
            f == windowFrames_[e.w]
        IN  \A j \in Positions(e) :
                /\ f.startType = kUnboundedPreceding => e.rawStarts[j] = 0
                /\ f.endType = kUnboundedPreceding => e.rawEnds[j] = 0
                /\ f.startType = kUnboundedFollowing
                       => e.rawStarts[j] = Len(partitions[e.part]) - 1
                /\ f.endType = kUnboundedFollowing
                       => e.rawEnds[j] = Len(partitions[e.part]) - 1

\* One batch held the last slice of one partition and a slice of the next
\* partition, of another size, that stops short of that partition's end,
\* under a frame from UNBOUNDED PRECEDING to UNBOUNDED FOLLOWING.
C12_Witness ==
    \E k1, k2 \in 1..Len(ApplyEvents) :
        LET e1 == ApplyEvents[k1]
            e2 == ApplyEvents[k2]
            f == windowFrames_[e1.w]
        IN  /\ f.endType = kUnboundedFollowing
            /\ f.startType = kUnboundedPreceding
            /\ e1.call = e2.call
            /\ e1.part < e2.part
            /\ Len(partitions[e1.part]) # Len(partitions[e2.part])
            /\ e2.endRow < Len(partitions[e2.part])
            /\ e2.endRow - e2.startRow > 1
            /\ e2.frameEnds[1] = Len(partitions[e2.part]) - 1
            /\ e1.frameEnds[1] = Len(partitions[e1.part]) - 1

\* C13: in ROWS mode with a constant offset K the bound of the row at slice
\* position i resolves to startRow + i - K for K PRECEDING and to
\* startRow + i + K for K FOLLOWING; under ROWS BETWEEN K PRECEDING AND
\* CURRENT ROW every partition row r is valid with frameStart = max(r - K, 0)
\* and frameEnd = r.
C13_ConstantKBounds ==
    \A k \in 1..Len(ApplyEvents) :
        LET e == ApplyEvents[k]
            f == windowFrames_[e.w]
            isConstant(arg) ==
                arg.present /\ arg.index = kConstantChannel
                    /\ arg.constant.hi = 0
        IN  f.type = kRows =>
                \A j \in Positions(e) :
                    /\ (f.startType = kPreceding /\ isConstant(f.start))
                           => e.rawStarts[j] = RowOf(e, j) - f.start.constant.lo
                    /\ (f.startType = kFollowing /\ isConstant(f.start))
                           => e.rawStarts[j] = RowOf(e, j) + f.start.constant.lo
                    /\ (f.endType = kPreceding /\ isConstant(f.end))
                           => e.rawEnds[j] = RowOf(e, j) - f.end.constant.lo
                    /\ (f.endType = kFollowing /\ isConstant(f.end))
                           => e.rawEnds[j] = RowOf(e, j) + f.end.constant.lo
                    /\ (/\ f.startType = kPreceding
                        /\ isConstant(f.start)
                        /\ f.endType = kCurrentRow)
                           => /\ e.validFrames[j]
                              /\ e.frameStarts[j] =
                                     Max(RowOf(e, j) - f.start.constant.lo, 0)
                              /\ e.frameEnds[j] = RowOf(e, j)

\* ROWS BETWEEN 2 PRECEDING AND CURRENT ROW on a partition of 4 rows: row 0
\* resolved frameStart = -2 and got 0, row 3 of a later slice got frameStart
\* = 1 and frameEnd = 3.
C13_Witness ==
    \E k1, k2 \in 1..Len(ApplyEvents) :
        LET e1 == ApplyEvents[k1]
            e2 == ApplyEvents[k2]
            f == windowFrames_[e1.w]
        IN  /\ f.type = kRows
            /\ f.startType = kPreceding
            /\ f.start.constant = Offset(0, 2)
            /\ f.endType = kCurrentRow
            /\ e1.part = e2.part
            /\ Len(partitions[e1.part]) = 4
            /\ e1.startRow = 0
            /\ e1.rawStarts[1] = -2
            /\ e1.frameStarts[1] = 0
            /\ e1.validFrames[1]
            /\ e2.startRow > 0
            /\ e2.endRow = 4
            /\ e2.frameStarts[e2.endRow - e2.startRow] = 1
            /\ e2.frameEnds[e2.endRow - e2.startRow] = 3

\* The offset column's values on the rows of a slice.
SliceOffsets(e) ==
    [j \in 1..(e.numRows) |-> partitions[e.part][e.startRow + j].off]

\* The offset a k bound of frame f uses on partition row r: its constant, or
\* the offset column's value on that row.
OffsetAt(arg, e, j) ==
    IF arg.index = kConstantChannel THEN arg.constant
    ELSE partitions[e.part][RowOf(e, j) + 1].off

IsColumnArg(arg) == arg.present /\ arg.index # kConstantChannel

\* row + factor * offset as a 64-bit pair, and a buffer entry as such a pair.
ExactBound(row, factor, off) ==
    [hi |-> factor * off.hi, lo |-> row + factor * off.lo]
StoredBound(entry) == [hi |-> 0, lo |-> entry]

\* C14: for every non-null, non-negative offset, also beyond the 32-bit
\* range, the bound resolved for a row is exactly (startRow + i) - offset for
\* K PRECEDING and (startRow + i) + offset for K FOLLOWING.
C14_NoWraparound ==
    \A k \in 1..Len(ApplyEvents) :
        LET e == ApplyEvents[k]
            f == windowFrames_[e.w]
            factor(boundType) == IF boundType = kPreceding THEN -1 ELSE 1
        IN  f.type = kRows =>
                \A j \in Positions(e) :
                    /\ IsKBound(f.startType)
                           => StoredBound(e.rawStarts[j]) =
                                  ExactBound(RowOf(e, j), factor(f.startType),
                                             OffsetAt(f.start, e, j))
                    /\ IsKBound(f.endType)
                           => StoredBound(e.rawEnds[j]) =
                                  ExactBound(RowOf(e, j), factor(f.endType),
                                             OffsetAt(f.end, e, j))

\* C15: a slice in which the offset column of a k bound holds a null or a
\* negative value makes bound resolution throw, "must not be null" for a null
\* and "must not be negative" with the value for a negative one, whichever
\* comes first in the slice, and the getOutput call returns no batch.
C15_BadColumnOffsetFails ==
    \A k \in 1..Len(SliceEvents) :
        LET e == SliceEvents[k]
            f == windowFrames_[1]
            offs == SliceOffsets(e)
            bad == {j \in 1..Len(offs) : offs[j].isNull \/ IsNegative(offs[j])}
            first == CHOOSE j \in bad : \A x \in bad : j <= x
        IN  ((IsColumnArg(f.start) \/ IsColumnArg(f.end)) /\ bad # {}) =>
                /\ op.failed = IF offs[first].isNull THEN NullOffsetError
                               ELSE NegativeOffsetError
                /\ log.badOffset = offs[first]
                /\ log.result = "exception"
                /\ k = Len(SliceEvents)
                /\ e.call = log.calls
                /\ Len(log.returned) = log.calls - 1

\* A getOutput call applied the function on one slice and then threw on the
\* next slice, whose offsets are a good value followed by a negative one.
C15_Witness ==
    /\ op.failed = NegativeOffsetError
    /\ log.result = "exception"
    /\ Len(SliceEvents) >= 2
    /\ LET e == SliceEvents[Len(SliceEvents)]
       IN  /\ e.numRows >= 2
           /\ ~SliceOffsets(e)[1].isNull
           /\ ~IsNegative(SliceOffsets(e)[1])
           /\ log.badOffset = SliceOffsets(e)[2]
           /\ e.call = log.calls
           /\ Len(AppliesOf(log.calls, 1)) >= 1

\* Two contents of a buffer entry are the same: both not initialised, or the
\* same row index.
SameEntry(a, b) == ToString(a) = ToString(b)

\* C16: when the offset column of a K PRECEDING bound is null on a row of the
\* slice, the error comes before any entry of the function's frameStart or
\* frameEnd buffer is written for that row in that slice.
C16_NullFailsBeforeAnyWrite ==
    (op.failed = NullOffsetError /\ SliceEvents # <<>>) =>
        LET e == SliceEvents[Len(SliceEvents)]
            f == windowFrames_[1]
        IN  \A j \in 1..(e.numRows) :
                (/\ SliceOffsets(e)[j].isNull
                 /\ \/ f.startType = kPreceding /\ IsColumnArg(f.start)
                    \/ f.endType = kPreceding /\ IsColumnArg(f.end)) =>
                    /\ SameEntry(op.frameStartBuffers_[1][j],
                                 e.frameStartBuffers[1][j])
                    /\ SameEntry(op.frameEndBuffers_[1][j],
                                 e.frameEndBuffers[1][j])

\* The positions in log.events of the calls of kind ev.
EventsOfKind(ev) == {x \in 1..Len(log.events) : log.events[x].ev = ev}

\* C17: within one slice the offset column is extracted from the partition
\* at most once, however many functions and bound sides use it.
C17_ExtractOncePerSlice ==
    \A k \in 1..Len(SliceEvents) :
        LET e == SliceEvents[k]
        IN  Cardinality(
                {x \in EventsOfKind("extractColumn") :
                    /\ log.events[x].part = e.part
                    /\ log.events[x].startOffset = e.startOffset
                    /\ log.events[x].channel = OffsetChannel}) <= 1

\* A frame in RANGE mode with a k bound.
IsRangeKFrame(f) ==
    f.type = kRange /\ (IsKBound(f.startType) \/ IsKBound(f.endType))

\* C18: no operator is constructed for a frame in RANGE mode with a K
\* PRECEDING or K FOLLOWING bound, so no addInput or getOutput runs for one.
C18_RangeKRejectedAtSetup ==
    (\E i \in 1..Len(windowFrames_) : IsRangeKFrame(windowFrames_[i])) =>
        /\ op.numRows_ = 0
        /\ log.calls = 0
        /\ log.result = "none"

\* C19: createWindowFrame throws on a null or negative constant offset, so
\* every constant offset of windowFrames_ is a non-negative integer and no
\* constant offset fails the offset checks of bound resolution later.
C19_ConstantOffsetsValidated ==
    /\ \A i \in 1..Len(windowFrames_) :
           LET f == windowFrames_[i]
               ok(arg) ==
                   (arg.present /\ arg.index = kConstantChannel) =>
                       ~arg.constant.isNull /\ ~IsNegative(arg.constant)
           IN  ok(f.start) /\ ok(f.end)
    /\ (op.failed \in {NullOffsetError, NegativeOffsetError}
            /\ windowFrames_ # <<>>)
           => IsColumnArg(windowFrames_[1].start)
                  \/ IsColumnArg(windowFrames_[1].end)

\* Construction threw on the constant -1: no frame was created.
C19_Witness ==
    /\ op.failed = NegativeOffsetError
    /\ log.badOffset = Offset(0, -1)
    /\ windowFrames_ = <<>>
    /\ log.calls = 0

\* C20: for every partition the WindowBuild handed out, each function's
\* resetPartition was called exactly once with it, after every apply call on
\* an earlier partition and before every apply call on that partition; it
\* was called with no other partition.
C20_ResetOncePerPartition ==
    \A p \in 1..Len(partitions), w \in 1..Len(windowFrames_) :
        LET resets == {x \in EventsOfKind("resetPartition") :
                          log.events[x].part = p /\ log.events[x].w = w}
        IN  /\ Cardinality(resets) =
                   IF p <= op.build.currentPartition THEN 1 ELSE 0
            /\ \A x \in resets, y \in EventsOfKind("apply") :
                   /\ log.events[y].part < p => y < x
                   /\ log.events[y].part = p => x < y
                   /\ log.events[y].part <= op.build.currentPartition

\* Two functions: a partition went through two slices or more, and the batch
\* of its last slice went on with the next partition after both functions
\* were reset.
C20_Witness ==
    /\ Len(windowFrames_) = 2
    /\ \E c \in 1..log.calls :
           /\ Len(AppliesOf(c, 2)) >= 2
           /\ AppliesOf(c, 2)[1].startRow > 0
           /\ AppliesOf(c, 2)[1].part < AppliesOf(c, 2)[2].part
           /\ \A w \in 1..2 :
                  \E x \in EventsOfKind("resetPartition") :
                      /\ log.events[x].w = w
                      /\ log.events[x].part = AppliesOf(c, 2)[2].part
    /\ op.failed = NoError

\* The rows of partition p that went through apply.
AppliedRows(p) ==
    SumSeq(SliceSizes(SelectSeq(ApplyEvents,
                                LAMBDA e : e.part = p /\ e.w = 1)))

\* C21: after every call a partition that is held has rows left,
\* partitionOffset_ < its row count; a partition the operator has left had
\* all its rows applied, and one it has not left had fewer.
C21_LeavesAtPartitionEnd ==
    /\ op.currentPartition_ # NoPartition
           => op.partitionOffset_ < Len(partitions[op.currentPartition_])
    /\ \A p \in 1..Len(partitions) :
           /\ IsLeft(p) => AppliedRows(p) = Len(partitions[p])
           /\ p = op.currentPartition_
                  => /\ AppliedRows(p) < Len(partitions[p])
                     /\ op.failed = NoError
                            => AppliedRows(p) = op.partitionOffset_
           /\ p > op.build.currentPartition => AppliedRows(p) = 0

\* A batch was filled exactly by the rest of a partition: the operator went
\* on to the next partition, which it holds at row 0.
C21_Witness ==
    \E k \in 1..Len(ApplyEvents) :
        LET e == ApplyEvents[k]
        IN  /\ k = Len(ApplyEvents)
            /\ e.startRow > 0
            /\ e.endRow = Len(partitions[e.part])
            /\ e.resultOffset + (e.endRow - e.startRow) = log.allocated[e.call]
            /\ op.currentPartition_ = e.part + 1
            /\ op.partitionOffset_ = 0
            /\ log.result = "batch"

\* The positions in log.events of the slices.
SlicePositions == {x \in 1..Len(log.events) : log.events[x].ev = "getInputColumns"}

\* C22: no slice passes the end of its partition; a slice that stops short of
\* it takes exactly what was left of the batch and ends the call, and the
\* next slice, in the next getOutput call, is of the same partition, starts
\* where that slice stopped at the front of its batch, with no resetPartition
\* in between.
C22_PartialPartitionResumes ==
    \A x \in SlicePositions :
        LET e == log.events[x]
            end == e.startRow + e.numRows
            later == {y \in SlicePositions : y > x}
            next == CHOOSE y \in later : \A z \in later : y <= z
        IN  /\ end <= Len(partitions[e.part])
            /\ (end < Len(partitions[e.part])
                    /\ (later # {} \/ op.failed = NoError)) =>
                   /\ e.numRows = log.allocated[e.call] - e.resultOffset
                   /\ later = {}
                          => /\ op.currentPartition_ = e.part
                             /\ op.partitionOffset_ = end
                   /\ later # {}
                          => /\ log.events[next].part = e.part
                             /\ log.events[next].startRow = end
                             /\ log.events[next].startOffset = end
                             /\ log.events[next].call = e.call + 1
                             /\ log.events[next].resultOffset = 0
                             /\ \A z \in x..next :
                                    log.events[z].ev # "resetPartition"

\* A partition after the first began in the middle of a batch, had more rows
\* than the batch had room for, and went on in the next call.
C22_Witness ==
    \E p \in 2..Len(partitions) :
        LET sl == SlicesOf(p)
        IN  /\ Len(sl) >= 2
            /\ sl[1].resultOffset > 0
            /\ sl[1].numRows < Len(partitions[p])
            /\ sl[1].numRows = log.allocated[sl[1].call] - sl[1].resultOffset
            /\ sl[2].call = sl[1].call + 1
            /\ sl[2].startRow = sl[1].numRows
            /\ op.failed = NoError

\* The positions in log.events of the computePeerBuffers calls.
PeerCallPositions == {x \in 1..Len(log.events) : log.events[x].ev = "computePeerBuffers"}

\* C23: computePeerBuffers is seeded with (0, 0) on the first slice of a
\* partition and otherwise with the pair that the call before it on the same
\* partition returned; the seeds the operator holds are those of the last
\* call on the partition it holds.
C23_PeerSeeds ==
    /\ \A x \in PeerCallPositions :
           LET e == log.events[x]
               before == {y \in PeerCallPositions :
                             y < x /\ log.events[y].part = e.part}
               last == CHOOSE y \in before : \A z \in before : z <= y
           IN  IF before = {}
               THEN e.prevPeerStart = 0 /\ e.prevPeerEnd = 0
               ELSE /\ e.prevPeerStart = log.events[last].peerStart
                    /\ e.prevPeerEnd = log.events[last].peerEnd
    /\ LET held == {y \in PeerCallPositions :
                       log.events[y].part = op.currentPartition_}
           last == CHOOSE y \in held : \A z \in held : z <= y
       IN  IF held = {}
           THEN op.peerStartRow_ = 0 /\ op.peerEndRow_ = 0
           ELSE /\ op.peerStartRow_ = log.events[last].peerStart
                /\ op.peerEndRow_ = log.events[last].peerEnd

\* In RANGE mode a partition after the first, whose rows are all peers, went
\* out in two batches: its second slice was seeded with the peer group the
\* first slice ended in, its first slice with (0, 0) although the partition
\* before it had left other seeds.
C23_Witness ==
    \E x, y \in PeerCallPositions :
        LET e1 == log.events[x]
            e2 == log.events[y]
        IN  /\ windowFrames_[1].type = kRange
            /\ x < y
            /\ e1.part = e2.part
            /\ e1.part >= 2
            /\ e1.startRow = 0
            /\ e1.prevPeerEnd = 0
            /\ e2.startRow > 0
            /\ e2.prevPeerStart = 0
            /\ e2.prevPeerEnd > e2.startRow
            /\ e2.peerEnd = e2.prevPeerEnd
            /\ \E k \in 1..Len(SlicesOf(e1.part)) :
                   /\ k > 1
                   /\ SlicesOf(e1.part)[k].call > SlicesOf(e1.part)[k - 1].call

\* C24: a getOutput call made while no partition is held and the build has
\* none to give returns nothing, calls neither resetPartition nor apply (nor
\* anything else of a partition or a function), creates no batch and leaves
\* the count of processed rows as it was.
C24_NothingWithoutPartition ==
    [][(/\ op.currentPartition_ = NoPartition
        /\ ~hasNextPartition(State)
        /\ log'.result # "none")
           => /\ log'.result = "nullptr"
              /\ log'.events = log.events
              /\ log'.calls = log.calls
              /\ log'.returned = log.returned
              /\ op'.numProcessedRows_ = op.numProcessedRows_
              /\ op'.currentPartition_ = NoPartition]_vars

\* getOutput returned nothing although rows had come in: noMoreInput had not
\* been called, so the build had no partition yet.
C24_Witness ==
    /\ log.result = "nullptr"
    /\ op.numRows_ > 0
    /\ ~op.noMoreInput_
    /\ op.currentPartition_ = NoPartition
    /\ log.events = <<>>
    /\ op.numProcessedRows_ = 0

\* The state that carries a partition over from one getOutput call to the
\* next.
ContinuationState == <<op.currentPartition_, op.partitionOffset_, op.peerStartRow_, op.peerEndRow_>>

\* C25: addInput, noMoreInput and a getOutput call that returns nothing leave
\* the current partition, partitionOffset_, peerStartRow_ and peerEndRow_
\* as they were: only a call that builds a batch changes them.
C25_ContinuationOnlyInBatching ==
    [][log'.result \in {"none", "nullptr"}
           => ContinuationState' = ContinuationState]_vars

\* getOutput returned nothing after all the rows of two partitions or more
\* had gone out in batches.
C25_Witness ==
    /\ log.result = "nullptr"
    /\ op.numRows_ > 0
    /\ op.numRows_ = op.numProcessedRows_
    /\ Len(partitions) >= 2
    /\ Len(log.returned) >= 2
    /\ ContinuationState = <<NoPartition, 0, 0, 0>>

\* C26: with ROWS frames whose k offsets are neither null nor negative no
\* call fails, wherever the resolved bounds fall: every slice that was
\* started went to apply, every getOutput that created a batch returned it,
\* and a row whose frame is empty is marked invalid.
C26_DegenerateFramesNoError ==
    windowFrames_[1].type = kRows =>
        /\ op.failed = NoError
        /\ log.result # "exception"
        /\ Len(log.returned) = log.calls
        /\ Len(ApplyEvents) = Len(SliceEvents)
        /\ \A k \in 1..Len(ApplyEvents) :
               /\ ApplyEvents[k].startRow = SliceEvents[k].startRow
               /\ ApplyEvents[k].part = SliceEvents[k].part
               /\ ApplyEvents[k].repaired =>
                      \A j \in Positions(ApplyEvents[k]) :
                          (\/ ApplyEvents[k].rawStarts[j] > ApplyEvents[k].rawEnds[j]
                           \/ ApplyEvents[k].rawEnds[j] < 0
                           \/ ApplyEvents[k].rawStarts[j] > LastRow(ApplyEvents[k]))
                              => ~ApplyEvents[k].validFrames[j]

\* A batch was returned with a row whose resolved frameStart is after the
\* last row of the partition and whose resolved frameEnd is before row 0.
C26_Witness ==
    /\ log.result = "batch"
    /\ \E k \in 1..Len(ApplyEvents) :
           LET e == ApplyEvents[k]
           IN  \E j \in Positions(e) :
                   /\ e.rawStarts[j] > LastRow(e)
                   /\ e.rawEnds[j] < 0
                   /\ ~e.validFrames[j]
                   /\ e.call = log.calls

\* C27: every frame of the operator has its start offset argument exactly if
\* its start bound is k PRECEDING or k FOLLOWING, and likewise its end; no
\* call fails on an absent argument, and the frames of a function went
\* through validity repair exactly if one of its bounds is a k bound.
C27_ArgIffKBound ==
    /\ \A i \in 1..Len(windowFrames_) :
           /\ windowFrames_[i].start.present
                  <=> IsKBound(windowFrames_[i].startType)
           /\ windowFrames_[i].end.present
                  <=> IsKBound(windowFrames_[i].endType)
    /\ op.failed # BadOptionalAccess
    /\ \A k \in 1..Len(ApplyEvents) :
           ApplyEvents[k].repaired
               <=> \/ IsKBound(windowFrames_[ApplyEvents[k].w].startType)
                   \/ IsKBound(windowFrames_[ApplyEvents[k].w].endType)

\* A frame with an offset column on its start side only was resolved and
\* repaired, and its rows went to apply.
C27_Witness ==
    \E k \in 1..Len(ApplyEvents) :
        LET e == ApplyEvents[k]
            f == windowFrames_[e.w]
        IN  /\ f.start.present
            /\ f.start.index # kConstantChannel
            /\ f.startType = kPreceding
            /\ ~f.end.present
            /\ f.endType = kCurrentRow
            /\ e.repaired
            /\ op.failed = NoError

\* What apply of function w is to be given for the slice that the
\* getInputColumns event e started, peer buffers rawPeerStarts and
\* rawPeerEnds: the bounds of frame w alone, resolved into the buffers the
\* function had and repaired if the frame has an offset argument.
OwnFrameBuffers(e, w, rawPeerStarts, rawPeerEnds) ==
    LET part == partitions[e.part]
        starts == updateFrameBounds(
                      windowFrames_[w], TRUE, part, e.startOffset, e.startRow,
                      e.numRows, rawPeerStarts, rawPeerEnds,
                      e.frameStartBuffers[w]).bounds
        ends == updateFrameBounds(
                    windowFrames_[w], FALSE, part, e.startOffset, e.startRow,
                    e.numRows, rawPeerStarts, rawPeerEnds,
                    e.frameEndBuffers[w]).bounds
    IN  IF NeedsValidFrames(windowFrames_[w])
        THEN computeValidFrames(PartNumRows(part) - 1, e.numRows, starts, ends,
                                FillN(e.numRows, TRUE))
        ELSE [rawFrameStarts |-> starts, rawFrameEnds |-> ends,
              validFrames |-> FillN(e.numRows, TRUE)]

\* The positions in log.events of what was done for the slice started at
\* position x: up to the next slice.
SegmentOf(x) ==
    {z \in (x + 1)..Len(log.events) :
        \A y \in SlicePositions : y > x => z < y}

\* C28: in every slice apply is called once per function, in the order of
\* the functions, after computePeerBuffers and every extractColumn of the
\* slice; function w is given the slice's rows and result offset, the peer
\* buffers of the slice, which are the same for all functions, and the frame
\* buffers and selector that its own frame alone determines.
C28_ApplyPerFunction ==
    \A x \in SlicePositions :
        LET e == log.events[x]
            n == Len(windowFrames_)
            applies == {z \in SegmentOf(x) : log.events[z].ev = "apply"}
            first == CHOOSE z \in applies : \A y \in applies : z <= y
            before == (x + 1)..(first - 1)
        IN  /\ Cardinality(applies) = n
            /\ applies = first..(first + n - 1)
            /\ \A z \in before :
                   log.events[z].ev \in {"computePeerBuffers", "extractColumn"}
            /\ Cardinality({z \in before :
                               log.events[z].ev = "computePeerBuffers"}) = 1
            /\ \A z \in SegmentOf(x) :
                   z > first + n - 1 => log.events[z].ev = "resetPartition"
            /\ \A w \in 1..n :
                   LET a == log.events[first + w - 1]
                       own == OwnFrameBuffers(e, w, a.peerStarts, a.peerEnds)
                   IN  /\ a.w = w
                       /\ a.part = e.part
                       /\ a.call = e.call
                       /\ a.startRow = e.startRow
                       /\ a.endRow = e.startRow + e.numRows
                       /\ a.resultOffset = e.resultOffset
                       /\ a.peerStarts = log.events[first].peerStarts
                       /\ a.peerEnds = log.events[first].peerEnds
                       /\ \A j \in 1..e.numRows :
                              /\ a.peerStarts[j] = PeerFirstOf(partitions[e.part], e.startRow + j - 1)
                              /\ a.peerEnds[j] = PeerLastOf(partitions[e.part], e.startRow + j - 1)
                       /\ a.frameStarts = SubSeq(own.rawFrameStarts, 1, e.numRows)
                       /\ a.frameEnds = SubSeq(own.rawFrameEnds, 1, e.numRows)
                       /\ a.validFrames = own.validFrames

\* Two functions with different frames, one repaired and one not: in a slice
\* that did not start its batch they were given the same peer buffers and
\* different frame buffers.
C28_Witness ==
    /\ Len(windowFrames_) = 2
    /\ NeedsValidFrames(windowFrames_[1])
    /\ ~NeedsValidFrames(windowFrames_[2])
    /\ \E k \in 1..(Len(ApplyEvents) - 1) :
           LET a == ApplyEvents[k]
               b == ApplyEvents[k + 1]
           IN  /\ a.w = 1
               /\ b.w = 2
               /\ a.resultOffset > 0
               /\ b.resultOffset = a.resultOffset
               /\ a.frameStarts # b.frameStarts
               /\ a.frameEnds # b.frameEnds
               /\ a.repaired
               /\ ~b.repaired
               /\ a.peerStarts = b.peerStarts

----------------------------------------------------------------------------
\* PlanBuilder::window: the check that the window function strings of one
\* node have the same PARTITION BY and ORDER BY clauses.

\* No Window operator takes part in a run of the plan builder or of the
\* table writer.
NoWindow ==
    /\ partitions = <<>>
    /\ windowFrames_ = <<>>
    /\ numRowsPerOutput_ = 1
    /\ op = InitOp(0, 1)
    /\ log = InitLog(0)

\* The sequences over S of at most n elements.
SeqsUpTo(S, n) == UNION {[1..k -> S] : k \in 0..n}

\* core::SortOrder
SortOrder(ascending, nullsFirst) == [ascending |-> ascending, nullsFirst |-> nullsFirst]
kAscNullsFirst == SortOrder(TRUE, TRUE)
kAscNullsLast == SortOrder(TRUE, FALSE)
kDescNullsLast == SortOrder(FALSE, FALSE)

\* duckdb::IExprWindowFunction, as far as window reads it: the PARTITION BY
\* column names and the ORDER BY column names with their sort orders.
WindowExpr(partitionBy, orderBy) == [partitionBy |-> partitionBy, orderBy |-> orderBy]

\* parsePartitionKeys: the typed field accesses of the PARTITION BY columns.
parsePartitionKeys(windowExpr) ==
    [i \in 1..Len(windowExpr.partitionBy) |->
        [kind |-> "field", name |-> windowExpr.partitionBy[i]]]

\* parseOrderByKeys: the pair of the sorting keys and the sorting orders.
parseOrderByKeys(windowExpr) ==
    [sortingKeys |->
         [i \in 1..Len(windowExpr.orderBy) |->
             [kind |-> "field", name |-> windowExpr.orderBy[i].expr]],
     sortingOrders |->
         [i \in 1..Len(windowExpr.orderBy) |-> windowExpr.orderBy[i].sortOrder]]

\* std::equal(lhs.begin(), lhs.end(), rhs.begin(), pred) on a list of lhsSize
\* and a list of rhsSize elements, matches being the positions that both
\* lists have where pred holds: the elements of lhs are compared with the
\* elements of rhs at the same positions, and the length of rhs is not
\* looked at.  The set of what the call can do: a read past the end of rhs
\* is undefined behaviour, after which the call may return either value or
\* crash.
stdEqual(lhsSize, rhsSize, matches) ==
    LET stops == {i \in 1..lhsSize : i > rhsSize \/ i \notin matches}
        stop == CHOOSE i \in stops : \A j \in stops : i <= j
    IN  IF stops = {} THEN {"true"}
        ELSE IF stop <= rhsSize THEN {"false"}
        ELSE {"true", "false", "crash"}

\* equalFieldAccessTypedExprPtrList
equalFieldAccessTypedExprPtrList(lhs, rhs) ==
    stdEqual(Len(lhs), Len(rhs),
             {i \in 1..Min(Len(lhs), Len(rhs)) : lhs[i].name = rhs[i].name})

\* equalSortOrderList
equalSortOrderList(lhs, rhs) ==
    stdEqual(Len(lhs), Len(rhs),
             {i \in 1..Min(Len(lhs), Len(rhs)) :
                 /\ lhs[i].ascending = rhs[i].ascending
                 /\ lhs[i].nullsFirst = rhs[i].nullsFirst})

\* One "if (!equal...(...)) errorOnMismatch(windowString, clause)" of the
\* loop in window: the outcomes of the iteration if the comparison can do
\* what is in equal, rest being the outcomes of what follows the statement.
MismatchCheck(equal, clause, rest) ==
    (IF "false" \in equal THEN {[result |-> "user error", clause |-> clause]} ELSE {})
    \cup (IF "crash" \in equal THEN {[result |-> "crash", clause |-> clause]} ELSE {})
    \cup (IF "true" \in equal THEN rest ELSE {})

\* The else branch of the loop in window for the string latest, the first
\* string being first.
CompareWithFirst(first, latest) ==
    MismatchCheck(
        equalFieldAccessTypedExprPtrList(
            parsePartitionKeys(first), parsePartitionKeys(latest)),
        "PARTITION BY",
        MismatchCheck(
            equalFieldAccessTypedExprPtrList(
                parseOrderByKeys(first).sortingKeys,
                parseOrderByKeys(latest).sortingKeys),
            "ORDER BY",
            MismatchCheck(
                equalSortOrderList(
                    parseOrderByKeys(first).sortingOrders,
                    parseOrderByKeys(latest).sortingOrders),
                "ORDER BY",
                {[result |-> "ok", clause |-> "none"]})))

\* The loop over the window function strings from the i-th on: the outcomes
\* of the call.
RECURSIVE windowLoop(_, _)
windowLoop(windowFunctions, i) ==
    IF i > Len(windowFunctions)
    THEN {[result |-> "plan", clause |-> "none", at |-> 0]}
    ELSE {[result |-> o.result, clause |-> o.clause, at |-> i] :
             o \in {c \in CompareWithFirst(windowFunctions[1], windowFunctions[i]) :
                       c.result # "ok"}}
         \cup (IF \E c \in CompareWithFirst(windowFunctions[1], windowFunctions[i]) :
                      c.result = "ok"
               THEN windowLoop(windowFunctions, i + 1)
               ELSE {})

\* PlanBuilder::window: the set of its outcomes, a plan node, an error or a
\* crash.
window(windowFunctions) ==
    IF Len(windowFunctions) = 0
    THEN {[result |-> "check failure", clause |-> "none", at |-> 0]}
    ELSE windowLoop(windowFunctions, 2)

\* The window function strings that are given to window: their PARTITION BY
\* lists over two columns with the ORDER BY list empty, or their ORDER BY
\* lists over two columns and three sort orders with one PARTITION BY column.
ColumnNames == {"a", "b"}
OrderByEntries == {[expr |-> c, sortOrder |-> o] : c \in ColumnNames, o \in {kAscNullsFirst, kAscNullsLast, kDescNullsLast}}
PartitionByStrings == {WindowExpr(p, <<>>) : p \in SeqsUpTo(ColumnNames, MaxKeys)}
OrderByStrings == {WindowExpr(<<"a">>, o) : o \in SeqsUpTo(OrderByEntries, MaxKeys)}
WindowStringLists(strings) == {<<>>} \cup {<<f>> : f \in strings} \cup {<<f, g>> : f, g \in strings}
ThreeWindowStrings == {<<f, g, h>> : f, g, h \in {WindowExpr(p, <<>>) : p \in {<<>>, <<"a">>, <<"a", "b">>}}}

InitPlanBuilder ==
    /\ NoWindow
    /\ tableWriter = NoTableWriter
    /\ extractorCache = NoExtractorCache
    /\ exchangeQueue = NoExchangeQueue
    /\ planBuilder \in
           {[windowFunctions |-> fs, outcome |-> NotCalled] :
               fs \in WindowStringLists(PartitionByStrings)
                      \cup WindowStringLists(OrderByStrings)
                      \cup ThreeWindowStrings}

\* PlanBuilder::window is called with the strings.
CallWindow ==
    /\ planBuilder.outcome = NotCalled
    /\ \E o \in window(planBuilder.windowFunctions) :
           planBuilder' = [planBuilder EXCEPT !.outcome = o]
    /\ UNCHANGED <<partitions, windowFrames_, numRowsPerOutput_, op, log, tableWriter, extractorCache, exchangeQueue>>

NextPlanBuilder == CallWindow

SpecPlanBuilder == InitPlanBuilder /\ [][NextPlanBuilder]_vars

\* The clauses of two window function strings differ: the PARTITION BY
\* columns, the ORDER BY columns or the sort orders are not the same lists.
ClausesDiffer(first, latest) ==
    \/ first.partitionBy # latest.partitionBy
    \/ first.orderBy # latest.orderBy

\* C29: when a window function string after the first has a PARTITION BY
\* list, an ORDER BY key list or a sort-order list that is not that of the
\* first string, be it only longer or shorter, window fails with a user
\* error.
C29_MismatchIsUserError ==
    (/\ planBuilder.outcome # NotCalled
     /\ \E i \in 2..Len(planBuilder.windowFunctions) :
            ClausesDiffer(planBuilder.windowFunctions[1],
                          planBuilder.windowFunctions[i]))
        => planBuilder.outcome.result = "user error"

----------------------------------------------------------------------------
\* The TableWriter operator.  Its data sink and its statistics aggregation
\* are other objects: what they return is chosen by the caller of the
\* operators below.

\* The state after TableWriter::TableWriter and initialize: singleColumn is
\* outputType_->size() == 1, hasAggregation is aggregation_ != nullptr.
\* outputs is the history of what getOutput returned.
InitWriter(singleColumn, hasAggregation) ==
    [present |-> TRUE,
     singleColumn |-> singleColumn,
     hasAggregation |-> hasAggregation,
     aggregationFinished |-> FALSE,
     aggregationRows |-> 0,
     noMoreInput_ |-> FALSE,
     finished_ |-> FALSE,
     numWrittenRows_ |-> 0,
     sinkRows |-> 0,
     sinkFinished |-> 0,
     outputs |-> <<>>]

\* TableWriter::addInput with an input of size rows
TableWriter_addInput(t, size) ==
    IF size = 0 THEN t
    ELSE [t EXCEPT !.sinkRows = @ + size,
                   !.numWrittenRows_ = @ + size,
                   !.aggregationRows = IF t.hasAggregation THEN @ + size ELSE @]

\* TableWriter::noMoreInput: Operator::noMoreInput sets the flag; the
\* aggregation is told as well and may have nothing left to give.
TableWriter_noMoreInput(t, aggregationFinishes) ==
    [t EXCEPT !.noMoreInput_ = TRUE,
              !.aggregationFinished = t.hasAggregation /\ aggregationFinishes]

\* What a getOutput call returns, kept with what held when it was called.
WriterOutput(t, before, kind, numRows, rowCount, fragments) ==
    [t EXCEPT !.outputs = Append(@,
        [kind |-> kind, numRows |-> numRows, rowCount |-> rowCount,
         fragments |-> fragments,
         noMoreInput |-> before.noMoreInput_,
         finished |-> before.finished_,
         aggregationDone |->
             ~before.hasAggregation \/ before.aggregationFinished])]

\* TableWriteTraits::createAggregationStatsOutput: nullptr if the
\* aggregation gave nothing, else a vector of as many rows.
createAggregationStatsOutput(t, before, aggregationOutput) ==
    IF aggregationOutput = 0
    THEN WriterOutput(t, before, "nullptr", 0, 0, 0)
    ELSE WriterOutput(t, before, "stats", aggregationOutput, 0, 0)

\* The part of getOutput from "finished_ = true" on: the single-column
\* output holds the count only, the other holds one more row per fragment
\* that dataSink_->finish() returned.
CommitOutput(t, before, fragments) ==
    IF t.singleColumn
    THEN WriterOutput(t, before, "commit", 1, t.numWrittenRows_, 0)
    ELSE WriterOutput([t EXCEPT !.sinkFinished = @ + 1], before, "commit",
                      fragments + 1, t.numWrittenRows_, fragments)

\* A faulty variant of TableWriter_getOutput: finished_ is not set.
TableWriter_getOutputStaysOpen(t, aggregationOutput, aggregationFinishes, fragments) ==
    IF ~t.noMoreInput_ \/ t.finished_
    THEN WriterOutput(t, t, "nullptr", 0, 0, 0)
    ELSE IF t.hasAggregation /\ ~t.aggregationFinished
    THEN createAggregationStatsOutput(
             [t EXCEPT !.aggregationFinished = aggregationFinishes],
             t, aggregationOutput)
    ELSE CommitOutput(t, t, fragments)

\* TableWriter::getOutput: aggregationOutput is the number of rows that
\* aggregation_->getOutput() returns (0 for nullptr), aggregationFinishes
\* whether the aggregation is finished after it, fragments the number of
\* fragments that dataSink_->finish() returns.
TableWriter_getOutput(t, aggregationOutput, aggregationFinishes, fragments) ==
    IF ~t.noMoreInput_ \/ t.finished_
    THEN WriterOutput(t, t, "nullptr", 0, 0, 0)
    ELSE IF t.hasAggregation /\ ~t.aggregationFinished
    THEN createAggregationStatsOutput(
             [t EXCEPT !.aggregationFinished = aggregationFinishes],
             t, aggregationOutput)
    ELSE CommitOutput([t EXCEPT !.finished_ = TRUE], t, fragments)

\* The writers that are run: the single-column output has no aggregation
\* (the constructor checks it).
InitTableWriter ==
    /\ NoWindow
    /\ planBuilder = NoPlanBuilder
    /\ tableWriter \in {InitWriter(TRUE, FALSE), InitWriter(FALSE, FALSE),
                        InitWriter(FALSE, TRUE)}
    /\ extractorCache = NoExtractorCache
    /\ exchangeQueue = NoExchangeQueue

WriterAddInput ==
    /\ ~tableWriter.noMoreInput_
    /\ \E size \in 0..(MaxWrittenRows - tableWriter.numWrittenRows_) :
           tableWriter' = TableWriter_addInput(tableWriter, size)
    /\ UNCHANGED <<partitions, windowFrames_, numRowsPerOutput_, op, log, planBuilder, extractorCache, exchangeQueue>>

WriterNoMoreInput ==
    /\ ~tableWriter.noMoreInput_
    /\ \E aggregationFinishes \in BOOLEAN :
           tableWriter' = TableWriter_noMoreInput(tableWriter, aggregationFinishes)
    /\ UNCHANGED <<partitions, windowFrames_, numRowsPerOutput_, op, log, planBuilder, extractorCache, exchangeQueue>>

WriterGetOutput ==
    /\ Len(tableWriter.outputs) < MaxWriterCalls
    /\ \E aggregationOutput \in 0..1, aggregationFinishes \in BOOLEAN, fragments \in 0..MaxFragments :
           tableWriter' = TableWriter_getOutput(tableWriter, aggregationOutput, aggregationFinishes, fragments)
    /\ UNCHANGED <<partitions, windowFrames_, numRowsPerOutput_, op, log, planBuilder, extractorCache, exchangeQueue>>

NextTableWriter == WriterAddInput \/ WriterNoMoreInput \/ WriterGetOutput

SpecTableWriter == InitTableWriter /\ [][NextTableWriter]_vars

\* The positions in the history of the calls that returned the commit
\* output.
CommitCalls == {k \in 1..Len(tableWriter.outputs) : tableWriter.outputs[k].kind = "commit"}

\* C30: a getOutput call before noMoreInput returns nothing; the commit
\* output is returned by the first call after noMoreInput at which there is
\* no aggregation or the aggregation is finished, and by no other call; it
\* holds the count of the written rows and one more row per fragment that
\* the data sink returned; every call after it returns nothing.
C30_CommitOutputOnce ==
    /\ \A k \in 1..Len(tableWriter.outputs) :
           LET o == tableWriter.outputs[k]
           IN  /\ ~o.noMoreInput => o.kind = "nullptr"
               /\ o.kind = "commit"
                      <=> /\ o.noMoreInput
                          /\ o.aggregationDone
                          /\ \A j \in 1..(k - 1) :
                                 tableWriter.outputs[j].kind # "commit"
               /\ o.kind = "commit"
                      => /\ o.numRows = o.fragments + 1
                         /\ o.rowCount = tableWriter.numWrittenRows_
                         /\ o.rowCount = tableWriter.sinkRows
               /\ o.kind = "stats" => o.noMoreInput /\ ~o.aggregationDone
               /\ (\E j \in CommitCalls : j < k) => o.kind = "nullptr"
    /\ Cardinality(CommitCalls) <= 1
    /\ CommitCalls # {} <=> tableWriter.finished_
    /\ tableWriter.sinkFinished <= 1

\* A writer with an aggregation returned nothing before noMoreInput, then a
\* statistics output, then the commit output with the count of the rows and
\* two fragments, then nothing.
C30_Witness ==
    /\ tableWriter.hasAggregation
    /\ Len(tableWriter.outputs) = 4
    /\ tableWriter.outputs[1].kind = "nullptr"
    /\ ~tableWriter.outputs[1].noMoreInput
    /\ tableWriter.outputs[2].kind = "stats"
    /\ tableWriter.outputs[3].kind = "commit"
    /\ tableWriter.outputs[3].numRows = 3
    /\ tableWriter.outputs[3].rowCount = MaxWrittenRows
    /\ tableWriter.outputs[4].kind = "nullptr"
    /\ tableWriter.outputs[4].noMoreInput

----------------------------------------------------------------------------
\* The Window operator again.

\* C31: every slice, and every computePeerBuffers call, has at least one and
\* at most numRowsPerOutput_ rows, the size the buffers were allocated with;
\* the peer and frame buffers keep that size and the selectors never pass it.
C31_SliceFitsBuffers ==
    /\ \A x \in 1..Len(log.events) :
           /\ log.events[x].ev = "getInputColumns"
                  => /\ log.events[x].numRows >= 1
                     /\ log.events[x].numRows <= numRowsPerOutput_
           /\ log.events[x].ev = "computePeerBuffers"
                  => log.events[x].endRow - log.events[x].startRow <= numRowsPerOutput_
           /\ log.events[x].ev = "apply"
                  => Len(log.events[x].validFrames) <= numRowsPerOutput_
    /\ Len(op.peerStartBuffer_) = numRowsPerOutput_
    /\ Len(op.peerEndBuffer_) = numRowsPerOutput_
    /\ \A w \in 1..Len(windowFrames_) :
           /\ Len(op.frameStartBuffers_[w]) = numRowsPerOutput_
           /\ Len(op.frameEndBuffers_[w]) = numRowsPerOutput_
           /\ Len(op.validFrames_[w]) <= numRowsPerOutput_

\* A partition with more rows than the buffers hold: a slice filled the
\* buffers to their last entry, and the rest followed in a smaller slice.
C31_Witness ==
    /\ numRowsPerOutput_ >= 2
    /\ \E p \in 1..Len(partitions) :
           /\ Len(partitions[p]) > numRowsPerOutput_
           /\ Len(SlicesOf(p)) = 2
           /\ SlicesOf(p)[1].numRows = numRowsPerOutput_
           /\ SlicesOf(p)[2].numRows < numRowsPerOutput_
    /\ \A j \in 1..numRowsPerOutput_ :
           ~SameEntry(op.peerStartBuffer_[j], Unset)
    /\ op.failed = NoError

\* The frames of function w on the rows of partition p when the whole
\* partition is one slice: entry r + 1 is for partition row r.
WholePartitionFrames(p, w) ==
    LET part == partitions[p]
        n == PartNumRows(part)
        peers == computePeerBuffers(part, 0, n, 0, 0)
        starts == updateFrameBounds(
                      windowFrames_[w], TRUE, part, 0, 0, n,
                      peers.rawPeerStarts, peers.rawPeerEnds,
                      FillN(n, Unset)).bounds
        ends == updateFrameBounds(
                    windowFrames_[w], FALSE, part, 0, 0, n,
                    peers.rawPeerStarts, peers.rawPeerEnds,
                    FillN(n, Unset)).bounds
    IN  IF NeedsValidFrames(windowFrames_[w])
        THEN computeValidFrames(n - 1, n, starts, ends, FillN(n, TRUE))
        ELSE [rawFrameStarts |-> starts, rawFrameEnds |-> ends,
              validFrames |-> FillN(n, TRUE)]

\* C32: whatever the budget cuts the partitions into, apply is given for
\* each partition row the frameStart, the frameEnd and the validity flag
\* that the row has when its partition is processed as one slice; so the
\* frames of a row are the same under any two budgets.
C32_FramesIndependentOfBatching ==
    \A k \in 1..Len(ApplyEvents) :
        LET e == ApplyEvents[k]
            whole == WholePartitionFrames(e.part, e.w)
        IN  \A j \in Positions(e) :
                /\ e.validFrames[j] = whole.validFrames[RowOf(e, j) + 1]
                /\ e.frameStarts[j] = whole.rawFrameStarts[RowOf(e, j) + 1]
                /\ e.frameEnds[j] = whole.rawFrameEnds[RowOf(e, j) + 1]

\* A frame that reads its offsets from the offset column, a partition that
\* went out in several slices: a slice after the first was applied with a
\* row marked invalid, another with a row marked valid.
C32_Witness ==
    \E k, m \in 1..Len(ApplyEvents) :
        LET e == ApplyEvents[k]
            d == ApplyEvents[m]
        IN  /\ HasColumnArg(windowFrames_[e.w])
            /\ e.part = d.part
            /\ e.startRow > 0
            /\ k # m
            /\ \E j \in Positions(e) : ~e.validFrames[j]
            /\ \E j \in Positions(d) : d.validFrames[j]

\* C33: the input columns and the offset column of a slice are extracted
\* from the partition at partitionOffset_ = startRow, for as many rows as the
\* slice has; so the bound of slice position j is computed with the offset
\* of partition row startRow + j.
C33_ExtractionAtStartRow ==
    /\ \A x \in 1..Len(log.events) :
           log.events[x].ev \in {"getInputColumns", "extractColumn"}
               => log.events[x].startOffset = log.events[x].startRow
    /\ \A x \in EventsOfKind("extractColumn") :
           \E k \in 1..Len(SliceEvents) :
               /\ SliceEvents[k].part = log.events[x].part
               /\ SliceEvents[k].startRow = log.events[x].startRow
               /\ SliceEvents[k].numRows = log.events[x].numRows
    /\ \A k \in 1..Len(ApplyEvents) :
           LET e == ApplyEvents[k]
               f == windowFrames_[e.w]
               sign(boundType) == IF boundType = kPreceding THEN -1 ELSE 1
               off(j) == partitions[e.part][RowOf(e, j) + 1].off.lo
           IN  \A j \in Positions(e) :
                   /\ IsColumnArg(f.start)
                          => e.rawStarts[j] = RowOf(e, j) + sign(f.startType) * off(j)
                   /\ IsColumnArg(f.end)
                          => e.rawEnds[j] = RowOf(e, j) + sign(f.endType) * off(j)

\* The offset column was extracted for a slice that starts after row 0, on
\* a row whose offset is not that of row 0, and the slice went to apply.
C33_Witness ==
    \E x \in EventsOfKind("extractColumn"), k \in 1..Len(ApplyEvents) :
        LET c == log.events[x]
            e == ApplyEvents[k]
        IN  /\ c.startRow > 0
            /\ c.startOffset = c.startRow
            /\ e.part = c.part
            /\ e.startRow = c.startRow
            /\ partitions[c.part][c.startRow + 1].off # partitions[c.part][1].off
            /\ IsColumnArg(windowFrames_[e.w].start)
            /\ e.rawStarts[1] # c.startRow

\* C34: the selector given to apply has one flag per row of the slice, and
\* the flag of a position is what the bounds resolved for that row in this
\* slice give, TRUE if the frame is not repaired; what the selector held
\* before the slice plays no part.
C34_ValidityPerSlice ==
    \A k \in 1..Len(ApplyEvents) :
        LET e == ApplyEvents[k]
        IN  /\ Len(e.validFrames) = e.endRow - e.startRow
            /\ \A j \in Positions(e) :
                   e.validFrames[j] =
                       IF e.repaired
                       THEN IsValidFrame(e.rawStarts[j], e.rawEnds[j], LastRow(e))
                       ELSE TRUE

\* A position that was marked invalid in one slice was marked valid in a
\* later slice, in which the selector was shorter.
C34_Witness ==
    \E k, m \in 1..Len(ApplyEvents) :
        /\ k < m
        /\ Len(ApplyEvents[m].validFrames) < Len(ApplyEvents[k].validFrames)
        /\ \E j \in Positions(ApplyEvents[m]) :
               /\ ~ApplyEvents[k].validFrames[j]
               /\ ApplyEvents[m].validFrames[j]

\* C35: when a null or negative offset makes a slice throw, apply was not
\* called for that slice, the operator still holds the partition with
\* partitionOffset_ at the start of the slice, and numProcessedRows_ counts
\* the rows of the slices before it and no others.
C35_FailedSliceNotCounted ==
    (op.failed \in {NullOffsetError, NegativeOffsetError} /\ SliceEvents # <<>>) =>
        LET e == SliceEvents[Len(SliceEvents)]
        IN  /\ \A k \in 1..Len(ApplyEvents) :
                   ~(ApplyEvents[k].part = e.part /\ ApplyEvents[k].startRow = e.startRow)
            /\ Len(ApplyEvents) = Len(SliceEvents) - 1
            /\ op.currentPartition_ = e.part
            /\ op.partitionOffset_ = e.startOffset
            /\ op.partitionOffset_ = e.startRow
            /\ op.numProcessedRows_ = SumSeq(SliceSizes(ApplyEvents))
            /\ log.result = "exception"

\* A getOutput call applied one slice, which stays counted, and threw on
\* the next slice of the same call.
C35_Witness ==
    /\ op.failed \in {NullOffsetError, NegativeOffsetError}
    /\ Len(SliceEvents) >= 2
    /\ SliceEvents[Len(SliceEvents)].call = log.calls
    /\ SliceEvents[Len(SliceEvents) - 1].call = log.calls
    /\ SliceEvents[Len(SliceEvents)].resultOffset > 0
    /\ op.numProcessedRows_ = SliceEvents[Len(SliceEvents)].resultOffset
    /\ op.partitionOffset_ = 0

\* C36: as long as no row was added, also after noMoreInput, the build is
\* not told that the input is complete, it hands out no partition, no call
\* is made on a partition or a function, and getOutput creates no batch and
\* returns nothing.
C36_NoRowsNoOutput ==
    op.numRows_ = 0 =>
        /\ ~op.build.sorted
        /\ op.build.currentPartition = 0
        /\ op.currentPartition_ = NoPartition
        /\ log.events = <<>>
        /\ log.calls = 0
        /\ log.returned = <<>>
        /\ log.result \in {"none", "nullptr"}
        /\ op.failed = NoError

\* noMoreInput came without a row being added, and a getOutput call after
\* it returned nothing.
C36_Witness ==
    /\ op.numRows_ = 0
    /\ op.noMoreInput_
    /\ log.result = "nullptr"
    /\ partitions = <<>>
    /\ ~op.build.sorted

\* The iterations of the loop of callApplyLoop in the c-th getOutput call
\* that created a batch: one slice each.
IterationsOf(c) == SelectSeq(SliceEvents, LAMBDA e : e.call = c)

\* C37: the loop of callApplyLoop ends: every iteration takes at least one
\* row of the budget that is left, and every iteration but the last ends its
\* partition, so that the next one is on the next partition; with a batch of
\* n rows there are at most n iterations, which take at most n rows
\* together.  The rows counted as processed never exceed the rows added.
C37_LoopTerminates ==
    /\ \A c \in 1..log.calls :
           LET it == IterationsOf(c)
           IN  /\ Len(it) >= 1
               /\ Len(it) <= log.allocated[c]
               /\ SumSeq([k \in 1..Len(it) |-> it[k].numRows]) <= log.allocated[c]
               /\ it[1].resultOffset = 0
               /\ \A k \in 1..Len(it) :
                      /\ it[k].numRows >= 1
                      /\ k > 1 =>
                             /\ it[k].resultOffset =
                                    it[k - 1].resultOffset + it[k - 1].numRows
                             /\ it[k].part = it[k - 1].part + 1
                             /\ it[k].startRow = 0
                             /\ it[k - 1].startRow + it[k - 1].numRows =
                                    Len(partitions[it[k - 1].part])
    /\ op.numProcessedRows_ <= op.numRows_
    /\ op.numRows_ <= InputRows
    /\ op.numProcessedRows_ = SumSeq(SliceSizes(ApplyEvents))

\* One getOutput call went through as many iterations as its batch has
\* rows, three or more, each on a partition of its own, and the operator has
\* processed every row it was given.
C37_Witness ==
    /\ log.calls >= 1
    /\ log.allocated[log.calls] >= 3
    /\ Len(IterationsOf(log.calls)) = log.allocated[log.calls]
    /\ op.numProcessedRows_ = InputRows
    /\ op.currentPartition_ = NoPartition
    /\ log.result = "batch"

----------------------------------------------------------------------------
\* SIMDJsonExtractor::getInstance (velox/functions/prestosql/json) and the
\* extractorCache of one thread.  kMaxCacheSize is set in the declaration of
\* the class; the cache is run with a small value of it.  A path is a
\* sequence of characters, a blank or a character that is no whitespace.

PathChars == {" ", "$"}

Paths == SeqsUpTo(PathChars, MaxPathLen)

\* folly::trimWhitespace: the piece without its leading and trailing
\* whitespace.
trimWhitespace(path) ==
    LET kept == {i \in 1..Len(path) : path[i] # " "}
    IN  IF kept = {} THEN <<>>
        ELSE SubSeq(path,
                    CHOOSE i \in kept : \A j \in kept : i <= j,
                    CHOOSE i \in kept : \A j \in kept : i >= j)

\* SIMDJsonExtractor::tokenize: false on the empty path and on a path the
\* JsonPathTokenizer does not accept.
tokenize(path, tokenizerAccepts) ==
    IF path = <<>> THEN FALSE ELSE tokenizerAccepts

\* The constructor tokenizes its path and throws a user error when
\* tokenize returns false.
NewExtractor(path, tokenizerAccepts) ==
    IF tokenize(path, tokenizerAccepts)
    THEN [ok |-> TRUE, extractor |-> [path |-> path]]
    ELSE [ok |-> FALSE, extractor |-> [path |-> <<>>]]

\* std::unordered_map: emplace leaves the map alone when the key is there.
Emplace(cache, key, value) ==
    IF key \in DOMAIN cache THEN cache
    ELSE [k \in DOMAIN cache \cup {key} |-> IF k = key THEN value ELSE cache[k]]

Erase(cache, key) == [k \in DOMAIN cache \ {key} |-> cache[k]]

\* extractorCache.erase(extractorCache.begin()) when the cache is full: the
\* order of an unordered_map is unspecified, so any entry may be the first.
EvictIfFull(cache) ==
    IF Cardinality(DOMAIN cache) = kMaxCacheSize
    THEN {Erase(cache, victim) : victim \in DOMAIN cache}
    ELSE {cache}

NoGetInstance == [called |-> FALSE]

GetInstanceCall(path, before, result, returned, constructed) ==
    [called |-> TRUE, path |-> path, before |-> before, result |-> result,
     returned |-> returned, constructed |-> constructed]

\* The new extractor is constructed before emplace is called: when the
\* constructor throws, the entry evicted is gone and nothing is inserted.
InsertNew(c, path, key, cache, tokenizerAccepts) ==
    IF NewExtractor(key, tokenizerAccepts).ok
    THEN [c EXCEPT !.cache = Emplace(cache, key, NewExtractor(key, tokenizerAccepts).extractor),
                   !.last = GetInstanceCall(path, c.cache, "extractor",
                                Emplace(cache, key, NewExtractor(key, tokenizerAccepts).extractor)[key],
                                TRUE)]
    ELSE [c EXCEPT !.cache = cache,
                   !.last = GetInstanceCall(path, c.cache, "exception", [path |-> <<>>], TRUE)]

\* A faulty variant of getInstance: the cache is searched for the path as
\* given.
getInstanceSearchesPath(c, path) ==
    IF path \in DOMAIN c.cache
    THEN {[c EXCEPT !.last = GetInstanceCall(path, c.cache, "extractor", c.cache[path], FALSE)]}
    ELSE {InsertNew(c, path, trimWhitespace(path), cache, tokenizerAccepts) :
              cache \in EvictIfFull(c.cache), tokenizerAccepts \in BOOLEAN}

\* SIMDJsonExtractor::getInstance: the states the call may end in.
getInstance(c, path) ==
    IF trimWhitespace(path) \in DOMAIN c.cache
    THEN {[c EXCEPT !.last = GetInstanceCall(path, c.cache, "extractor",
                                             c.cache[trimWhitespace(path)], FALSE)]}
    ELSE {InsertNew(c, path, trimWhitespace(path), cache, tokenizerAccepts) :
              cache \in EvictIfFull(c.cache), tokenizerAccepts \in BOOLEAN}

\* No ExchangeQueue takes part in a run of the extractor cache.
InitExtractorCache ==
    /\ NoWindow
    /\ planBuilder = NoPlanBuilder
    /\ tableWriter = NoTableWriter
    /\ exchangeQueue = NoExchangeQueue
    /\ extractorCache = [present |-> TRUE, cache |-> <<>>, last |-> NoGetInstance]

\* The thread calls getInstance with a path.
GetInstance ==
    /\ \E path \in Paths :
           extractorCache' \in getInstance(extractorCache, path)
    /\ UNCHANGED <<partitions, windowFrames_, numRowsPerOutput_, op, log, planBuilder, tableWriter, exchangeQueue>>

NextExtractorCache == GetInstance

SpecExtractorCache == InitExtractorCache /\ [][NextExtractorCache]_vars

\* The path is the key with whitespace alone around it, and the key neither
\* starts nor ends with whitespace.
IsKeyOf(key, path) ==
    /\ key = <<>> \/ (key[1] # " " /\ key[Len(key)] # " ")
    /\ \E i \in 0..Len(path) :
           /\ i + Len(key) <= Len(path)
           /\ \A j \in 1..Len(path) :
                  IF j > i /\ j <= i + Len(key) THEN path[j] = key[j - i]
                  ELSE path[j] = " "

\* C38: the cache never holds more than kMaxCacheSize entries: a call that
\* finds the cache full and its path not cached removes exactly one entry
\* before it inserts.  A call whose path, whitespace around it put aside, is
\* the key of an entry returns the extractor of that entry, constructs none
\* and leaves the cache as it was.
C38_CacheBoundedAndReused ==
    extractorCache.present =>
        /\ Cardinality(DOMAIN extractorCache.cache) <= kMaxCacheSize
        /\ extractorCache.last.called =>
               LET l == extractorCache.last
                   cached == {k \in DOMAIN l.before : IsKeyOf(k, l.path)}
               IN  /\ Cardinality(cached) <= 1
                   /\ \A k \in cached :
                          /\ extractorCache.cache = l.before
                          /\ l.result = "extractor"
                          /\ l.returned = l.before[k]
                          /\ ~l.constructed
                   /\ (cached = {} /\ Cardinality(DOMAIN l.before) = kMaxCacheSize) =>
                          /\ Cardinality(DOMAIN l.before \ DOMAIN extractorCache.cache) = 1
                          /\ l.result = "extractor" =>
                                 Cardinality(DOMAIN extractorCache.cache \ DOMAIN l.before) = 1

\* The cache is full without the shortest valid path in it, and the last
\* call found its path, written with whitespace around it, in the cache.
C38_Witness ==
    /\ extractorCache.present
    /\ extractorCache.last.called
    /\ Cardinality(DOMAIN extractorCache.cache) = kMaxCacheSize
    /\ ~extractorCache.last.constructed
    /\ extractorCache.last.path \notin DOMAIN extractorCache.cache
    /\ trimWhitespace(extractorCache.last.path) \in DOMAIN extractorCache.cache
    /\ <<"$">> \notin DOMAIN extractorCache.cache

----------------------------------------------------------------------------
\* ExchangeQueue (velox/exec/ExchangeQueue.h).  The pages of queue_ are
\* counted; a promise is known by the name it was made with.  The callers
\* hold mutex_ around every function modelled here, so each is one step.

InitQueue ==
    [numCompleted_ |-> 0, numSources_ |-> 0, noMoreSources_ |-> FALSE,
     atEnd_ |-> FALSE, queue_ |-> 0, promises_ |-> <<>>, error_ |-> FALSE]

\* What a call leaves: the queue, the promises handed to the caller to be
\* fulfilled outside the lock, and whether it threw.
QueueResult(q, promises, threw) == [q |-> q, promises |-> promises, threw |-> threw]

\* return std::move(promises_): the vector returned is move-constructed, and
\* promises_ is left empty.
clearAllPromisesLocked(q) == QueueResult([q EXCEPT !.promises_ = <<>>], q.promises_, FALSE)

closeLocked(q) == clearAllPromisesLocked([q EXCEPT !.queue_ = 0])

\* A faulty variant of checkCompleteLocked: the sources are not counted.
checkCompleteLockedAnyCount(q) ==
    IF q.noMoreSources_
    THEN clearAllPromisesLocked([q EXCEPT !.atEnd_ = TRUE])
    ELSE QueueResult(q, <<>>, FALSE)

checkCompleteLocked(q) ==
    IF q.noMoreSources_ /\ q.numCompleted_ = q.numSources_
    THEN clearAllPromisesLocked([q EXCEPT !.atEnd_ = TRUE])
    ELSE QueueResult(q, <<>>, FALSE)

\* A faulty variant of addSourceLocked: without the VELOX_CHECK.
addSourceLockedUnchecked(q) ==
    QueueResult([q EXCEPT !.numSources_ = @ + 1], <<>>, FALSE)

\* VELOX_CHECK throws when its condition is false.
addSourceLocked(q) ==
    IF q.noMoreSources_
    THEN QueueResult(q, <<>>, TRUE)
    ELSE QueueResult([q EXCEPT !.numSources_ = @ + 1], <<>>, FALSE)

\* ExchangeQueue::noMoreSources declares that no source will be added and
\* checks for completion.
noMoreSources(q) == checkCompleteLocked([q EXCEPT !.noMoreSources_ = TRUE])

\* ExchangeQueue::enqueueLocked: a null page is the end of one source;
\* any other page is queued and wakes one waiting consumer up.
enqueueLocked(q, isNull) ==
    IF isNull
    THEN checkCompleteLocked([q EXCEPT !.numCompleted_ = @ + 1])
    ELSE IF q.promises_ = <<>>
         THEN QueueResult([q EXCEPT !.queue_ = @ + 1], <<>>, FALSE)
         ELSE QueueResult([q EXCEPT !.queue_ = @ + 1,
                                    !.promises_ = SubSeq(@, 1, Len(@) - 1)],
                          <<q.promises_[Len(q.promises_)]>>, FALSE)

\* ExchangeQueue::dequeueLocked: throws the error when one is set; with no
\* page queued and the queue not at end, the consumer is left a promise.
dequeueLocked(q) ==
    IF q.error_ THEN QueueResult(q, <<>>, TRUE)
    ELSE IF q.queue_ = 0
         THEN IF q.atEnd_ THEN QueueResult(q, <<>>, FALSE)
              ELSE QueueResult([q EXCEPT !.promises_ = Append(@, "ExchangeQueue::dequeue")],
                               <<>>, FALSE)
         ELSE QueueResult([q EXCEPT !.queue_ = @ - 1], <<>>, FALSE)

\* ExchangeQueue::setError: the first error is kept, the queue is at end
\* and the consumers are woken up.
setError(q) ==
    IF q.error_ THEN QueueResult(q, <<>>, FALSE)
    ELSE clearAllPromisesLocked([q EXCEPT !.error_ = TRUE, !.atEnd_ = TRUE])

\* ExchangeQueue::close
close(q) == closeLocked(q)

\* The last call on the queue: its name, the queue before it, and for a call
\* that went through checkCompleteLocked the queue as that function found
\* it.
NoQueueCall == [called |-> FALSE]

QueueCall(name, before, checked, r) ==
    [called |-> TRUE, name |-> name, before |-> before, checked |-> checked,
     threw |-> r.threw, promises |-> r.promises]

NotChecked == [ran |-> FALSE]

Checked(q) == [ran |-> TRUE, found |-> q]

QueueBecomes(name, checked, r) ==
    /\ exchangeQueue' = [exchangeQueue EXCEPT
                             !.q = r.q,
                             !.last = QueueCall(name, exchangeQueue.q, checked, r)]
    /\ UNCHANGED <<partitions, windowFrames_, numRowsPerOutput_, op, log, planBuilder, tableWriter, extractorCache>>

InitExchangeQueue ==
    /\ NoWindow
    /\ planBuilder = NoPlanBuilder
    /\ tableWriter = NoTableWriter
    /\ extractorCache = NoExtractorCache
    /\ exchangeQueue = [present |-> TRUE, q |-> InitQueue, last |-> NoQueueCall]

\* A source is added, before or after noMoreSources.
QueueAddSource ==
    /\ exchangeQueue.q.numSources_ < MaxSources
    /\ QueueBecomes("addSourceLocked", NotChecked, addSourceLocked(exchangeQueue.q))

QueueNoMoreSources ==
    QueueBecomes("noMoreSources",
                 Checked([exchangeQueue.q EXCEPT !.noMoreSources_ = TRUE]),
                 noMoreSources(exchangeQueue.q))

\* A source that was added and has not ended enqueues a page.
QueueEnqueuePage ==
    /\ exchangeQueue.q.numCompleted_ < exchangeQueue.q.numSources_
    /\ exchangeQueue.q.queue_ < MaxPages
    /\ QueueBecomes("enqueueLocked", NotChecked, enqueueLocked(exchangeQueue.q, FALSE))

\* A source that was added and has not ended enqueues its end.
QueueEnqueueEnd ==
    /\ exchangeQueue.q.numCompleted_ < exchangeQueue.q.numSources_
    /\ QueueBecomes("enqueueLocked",
                    Checked([exchangeQueue.q EXCEPT !.numCompleted_ = @ + 1]),
                    enqueueLocked(exchangeQueue.q, TRUE))

QueueDequeue ==
    /\ Len(exchangeQueue.q.promises_) < MaxPromises
    /\ QueueBecomes("dequeueLocked", NotChecked, dequeueLocked(exchangeQueue.q))

QueueSetError == QueueBecomes("setError", NotChecked, setError(exchangeQueue.q))

QueueClose == QueueBecomes("close", NotChecked, close(exchangeQueue.q))

NextExchangeQueue ==
    \/ QueueAddSource
    \/ QueueNoMoreSources
    \/ QueueEnqueuePage
    \/ QueueEnqueueEnd
    \/ QueueDequeue
    \/ QueueSetError
    \/ QueueClose

SpecExchangeQueue == InitExchangeQueue /\ [][NextExchangeQueue]_vars

\* C39: addSourceLocked on a queue whose noMoreSources_ is set throws and
\* leaves the queue, its count of sources included, as it was; on any other
\* queue it does not throw and adds exactly one to the count of sources, and
\* changes nothing else.
C39_AddSourceAfterNoMoreSourcesFails ==
    (exchangeQueue.present /\ exchangeQueue.last.called
        /\ exchangeQueue.last.name = "addSourceLocked") =>
        LET before == exchangeQueue.last.before
        IN  IF before.noMoreSources_
            THEN /\ exchangeQueue.last.threw
                 /\ exchangeQueue.q = before
            ELSE /\ ~exchangeQueue.last.threw
                 /\ exchangeQueue.q.numSources_ = before.numSources_ + 1
                 /\ exchangeQueue.q = [before EXCEPT !.numSources_ = @ + 1]

\* addSourceLocked threw on a queue that has a source and is not at end.
C39_Witness ==
    /\ exchangeQueue.present
    /\ exchangeQueue.last.called
    /\ exchangeQueue.last.name = "addSourceLocked"
    /\ exchangeQueue.last.threw
    /\ exchangeQueue.q.numSources_ >= 1
    /\ exchangeQueue.q.numCompleted_ < exchangeQueue.q.numSources_
    /\ ~exchangeQueue.q.atEnd_

\* C40: a call that goes through checkCompleteLocked sets atEnd_ and hands
\* back every promise of promises_, leaving none, when it finds
\* noMoreSources_ set and numCompleted_ equal to numSources_; when it finds
\* anything else it leaves the queue as it found it and hands back no
\* promise.  No call on the queue clears atEnd_.
C40_AtEndOnlyWhenComplete ==
    (exchangeQueue.present /\ exchangeQueue.last.called) =>
        /\ exchangeQueue.last.before.atEnd_ => exchangeQueue.q.atEnd_
        /\ exchangeQueue.last.checked.ran =>
               LET found == exchangeQueue.last.checked.found
               IN  IF found.noMoreSources_ /\ found.numCompleted_ = found.numSources_
                   THEN /\ exchangeQueue.q = [found EXCEPT !.atEnd_ = TRUE,
                                                           !.promises_ = <<>>]
                        /\ exchangeQueue.last.promises = found.promises_
                   ELSE /\ exchangeQueue.q = found
                        /\ exchangeQueue.last.promises = <<>>

\* The end of the last source put the queue at end, and two waiting
\* consumers were handed back.
C40_Witness ==
    /\ exchangeQueue.present
    /\ exchangeQueue.last.called
    /\ exchangeQueue.last.name = "enqueueLocked"
    /\ exchangeQueue.last.checked.ran
    /\ ~exchangeQueue.last.before.atEnd_
    /\ exchangeQueue.q.atEnd_
    /\ exchangeQueue.q.numSources_ >= 2
    /\ Len(exchangeQueue.last.promises) >= 2
    /\ exchangeQueue.q.promises_ = <<>>

====
